---- MODULE Spec2Model ----
(***************************************************************************)
(* Verification model of the Gator Safe App (osobot-ai/gator-safe-app):    *)
(* the delegation library (lib/delegations, lib/enforcers, lib/storage,    *)
(* config/addresses), the create wizard, the Safe-app Redeem page and the  *)
(* standalone redeem page.                                                 *)
(*                                                                         *)
(* Hex strings and addresses are sequences of one-character strings that   *)
(* keep the "0x" prefix and the letter case of the source, so that         *)
(* toLowerCase, slice and the tight packing of encodePacked are computed,  *)
(* never assumed.  keccak256 is the usual symbolic, collision-free digest: *)
(* "0x#" followed by the digits of its pre-image.                          *)
(***************************************************************************)
EXTENDS Integers, Sequences, FiniteSets, TLC

-----------------------------------------------------------------------------
(* Bounds of the model *)

\* largest whole part of an amount typed into a form
MaxAmount == 2
\* number of distinct wall-clock seconds Date.now() can return
MaxClock == 2

-----------------------------------------------------------------------------
(* Characters and hex strings *)

HexLower == <<"0","1","2","3","4","5","6","7","8","9","a","b","c","d","e","f">>
HexUpper == <<"0","1","2","3","4","5","6","7","8","9","A","B","C","D","E","F">>

HexValTable ==
  [c \in {HexLower[i] : i \in 1..16} \cup {HexUpper[i] : i \in 1..16} |->
     IF \E i \in 1..16 : HexLower[i] = c
       THEN (CHOOSE i \in 1..16 : HexLower[i] = c) - 1
       ELSE (CHOOSE i \in 1..16 : HexUpper[i] = c) - 1]

\* value of a hex digit character, -1 when the character is not one
HexVal(c) == IF c \in DOMAIN HexValTable THEN HexValTable[c] ELSE -1

\* String.prototype.toLowerCase
toLowerCase(s) == [i \in 1..Len(s) |-> IF HexVal(s[i]) >= 0 THEN HexLower[HexVal(s[i]) + 1] ELSE s[i]]

\* String.prototype.slice(from, to), indices from 0, end exclusive
slice(s, from, to) == SubSeq(s, from + 1, IF to < Len(s) THEN to ELSE Len(s))

\* the "0x" prefix
Prefix0x == <<"0","x">>

\* the hex digits of a hex string, without its prefix
Digits(h) == SubSeq(h, 3, Len(h))

\* the number of bytes a hex string holds
size(h) == (Len(h) - 2) \div 2

-----------------------------------------------------------------------------
(* uint256 values: a bigint is kept as its hex digits, lower case, without  *)
(* leading zeros (<<>> is zero), so that 10^18-scaled amounts fit           *)

Zeros(n) == [i \in 1..n |-> "0"]

RECURSIVE StripZeros(_)
StripZeros(ds) == IF Len(ds) > 0 /\ ds[1] = "0" THEN StripZeros(Tail(ds)) ELSE ds

\* the bigint of a small natural number
RECURSIVE HexNum(_)
HexNum(n) == IF n = 0 THEN <<>> ELSE HexNum(n \div 16) \o <<HexLower[(n % 16) + 1]>>

\* BigInt("0x..."): the value of a hex string
BigInt(h) == StripZeros(toLowerCase(Digits(h)))

\* long division of a decimal digit string by 16: quotient digits and remainder
RECURSIVE LongDiv16(_, _, _)
LongDiv16(ds, r, q) ==
  IF Len(ds) = 0 THEN [q |-> q, r |-> r]
  ELSE LET cur == r * 10 + HexVal(ds[1])
       IN  LongDiv16(Tail(ds), cur % 16, Append(q, HexLower[(cur \div 16) + 1]))

\* BigInt("123..."): the value of a decimal digit string
RECURSIVE DecToBig(_)
DecToBig(ds) ==
  IF Len(StripZeros(ds)) = 0 THEN <<>>
  ELSE LET d == LongDiv16(StripZeros(ds), 0, <<>>)
       IN  DecToBig(d.q) \o <<HexLower[d.r + 1]>>

\* a decimal digit string plus one
RECURSIVE DecInc(_)
DecInc(ds) ==
  IF Len(ds) = 0 THEN <<"1">>
  ELSE IF ds[Len(ds)] = "9" THEN DecInc(SubSeq(ds, 1, Len(ds) - 1)) \o <<"0">>
  ELSE SubSeq(ds, 1, Len(ds) - 1) \o <<HexLower[HexVal(ds[Len(ds)]) + 2]>>

\* the value of hex digits that hold a small number (seconds, periods)
RECURSIVE HexToNat(_)
HexToNat(ds) == IF Len(ds) = 0 THEN 0
                ELSE 16 * HexToNat(SubSeq(ds, 1, Len(ds) - 1)) + HexVal(ds[Len(ds)])

-----------------------------------------------------------------------------
(* config/addresses.ts *)

DELEGATION_MANAGER ==
  <<"0","x","d","b","9","B","1","e","9","4","B","5","b","6","9","D","f","7","e","4","0","1","D","D","b","e","d","E","4","3","4","9","1","1","4","1","0","4","7","d","B","3">>
FACTORY_ZERO ==
  <<"0","x","0","0","0","0","0","0","0","0","0","0","0","0","0","0","0","0","0","0","0","0","0","0","0","0","0","0","0","0","0","0","0","0","0","0","0","0","0","0","0","0">>
FACTORY_BASE ==
  <<"0","x","0","D","0","4","2","1","e","4","3","0","5","7","b","f","8","5","0","e","2","4","3","E","c","D","A","2","A","D","8","9","6","6","C","8","D","5","8","7","7","B">>
NativeTokenPeriodTransferEnforcer ==
  <<"0","x","9","B","C","0","F","A","f","4","A","c","a","5","A","E","4","2","9","F","4","c","0","6","a","E","E","a","C","5","1","7","5","2","0","C","B","1","6","B","D","9">>
ERC20PeriodTransferEnforcer ==
  <<"0","x","4","7","4","e","3","A","e","7","E","1","6","9","e","9","4","0","6","0","7","c","C","6","2","4","D","a","8","A","1","5","E","b","1","2","0","1","3","9","a","B">>
NativeTokenTransferAmountEnforcer ==
  <<"0","x","F","7","1","a","f","5","8","0","b","9","c","3","0","7","8","f","b","c","2","B","B","F","1","6","F","b","B","8","E","E","d","8","2","b","3","3","0","3","2","0">>
ERC20TransferAmountEnforcer ==
  <<"0","x","f","1","0","0","b","0","8","1","9","4","2","7","1","1","7","E","c","F","7","6","E","d","9","4","B","3","5","8","B","1","A","5","b","5","C","6","D","2","F","c">>
ERC20MultiOperationIncreaseBalanceEnforcer ==
  <<"0","x","e","a","a","1","b","e","9","1","f","0","e","a","4","1","7","8","2","0","a","7","6","5","d","f","9","c","5","b","e","5","4","2","2","8","6","b","f","f","d","c">>
ValueLteEnforcer ==
  <<"0","x","9","2","B","f","1","2","3","2","2","5","2","7","c","A","A","6","1","2","f","d","3","1","a","0","e","8","1","0","4","7","2","B","B","B","1","0","6","A","8","F">>
TimestampEnforcer ==
  <<"0","x","1","0","4","6","b","b","4","5","C","8","d","6","7","3","d","4","e","a","7","5","3","2","1","2","8","0","D","B","3","4","8","9","9","4","1","3","c","0","6","9">>
DelegationMetaSwapAdapter ==
  <<"0","x","5","e","4","b","4","9","1","5","6","D","2","3","D","8","9","0","e","7","D","C","2","6","4","c","3","7","8","a","4","4","3","C","2","d","2","2","A","8","0","E">>
USDC ==
  <<"0","x","8","3","3","5","8","9","f","C","D","6","e","D","b","6","E","0","8","f","4","c","7","C","3","2","D","4","f","7","1","b","5","4","b","d","A","0","2","9","1","3">>
OSO ==
  <<"0","x","c","7","8","f","A","b","C","2","c","B","5","B","9","c","f","5","9","E","0","A","f","3","D","a","8","E","3","B","c","4","6","d","4","7","7","5","3","A","4","e">>
OSO_LOWER ==
  <<"0","x","c","7","8","f","a","b","c","2","c","b","5","b","9","c","f","5","9","e","0","a","f","3","d","a","8","e","3","b","c","4","6","d","4","7","7","5","3","a","4","e">>
WETH ==
  <<"0","x","4","2","0","0","0","0","0","0","0","0","0","0","0","0","0","0","0","0","0","0","0","0","0","0","0","0","0","0","0","0","0","0","0","0","0","0","0","0","0","6">>
ROOT_AUTHORITY ==
  <<"0","x","f","f","f","f","f","f","f","f","f","f","f","f","f","f","f","f","f","f","f","f","f","f","f","f","f","f","f","f","f","f","f","f","f","f","f","f","f","f","f","f","f","f","f","f","f","f","f","f","f","f","f","f","f","f","f","f","f","f","f","f","f","f","f","f">>
DEFAULT_SALT ==
  <<"0","x","0","0","0","0","0","0","0","0","0","0","0","0","0","0","0","0","0","0","0","0","0","0","0","0","0","0","0","0","0","0","0","0","0","0","0","0","0","0","0","0","0","0","0","0","0","0","0","0","0","0","0","0","0","0","0","0","0","0","0","0","0","0","0","1">>

\* an address whose mixed case is not its EIP-55 checksum (USDC, upper-cased tail)
BAD_CHECKSUM ==
  <<"0","x","8","3","3","5","8","9","F","C","D","6","e","D","b","6","E","0","8","f","4","c","7","C","3","2","D","4","f","7","1","b","5","4","b","d","A","0","2","9","1","3">>

SHARED_ENFORCERS ==
  [ nativeTokenPeriodTransferEnforcer |-> NativeTokenPeriodTransferEnforcer,
    erc20PeriodTransferEnforcer |-> ERC20PeriodTransferEnforcer,
    nativeTokenTransferAmountEnforcer |-> NativeTokenTransferAmountEnforcer,
    erc20TransferAmountEnforcer |-> ERC20TransferAmountEnforcer,
    erc20MultiOperationIncreaseBalanceEnforcer |-> ERC20MultiOperationIncreaseBalanceEnforcer,
    valueLteEnforcer |-> ValueLteEnforcer,
    timestampEnforcer |-> TimestampEnforcer,
    delegationMetaSwapAdapter |-> DelegationMetaSwapAdapter ]

WithManagerAndFactory(factory) ==
  [ f \in DOMAIN SHARED_ENFORCERS \cup {"delegationManager", "delegatorModuleFactory"} |->
      IF f = "delegationManager" THEN DELEGATION_MANAGER
      ELSE IF f = "delegatorModuleFactory" THEN factory
      ELSE SHARED_ENFORCERS[f] ]

BaseSepolia == 84532
BaseMainnet == 8453
Anvil == 31337



\* the Safe the app is opened in (safe.safeAddress): 0x5Afe00000000000000000000000000000000bEeF
SAFE_ADDRESS ==
  <<"0","x","5","A","f","e","0","0","0","0","0","0","0","0","0","0","0","0","0","0","0","0","0","0","0","0","0","0","0","0","0","0","0","0","0","0","0","0","b","E","e","F">>
\* what predictAddress returns for that Safe: 0xDE1e9a7040000000000000000000000000C0FfEE
MODULE_ADDRESS ==
  <<"0","x","D","E","1","e","9","a","7","0","4","0","0","0","0","0","0","0","0","0","0","0","0","0","0","0","0","0","0","0","0","0","0","0","0","0","C","0","F","f","E","E">>
\* two externally owned accounts: 0xa11cE0000000000000000000000000000000CaFe
ALICE ==
  <<"0","x","a","1","1","c","E","0","0","0","0","0","0","0","0","0","0","0","0","0","0","0","0","0","0","0","0","0","0","0","0","0","0","0","0","0","0","0","C","a","F","e">>
\* 0xB0b0000000000000000000000000000000000fab
BOB ==
  <<"0","x","B","0","b","0","0","0","0","0","0","0","0","0","0","0","0","0","0","0","0","0","0","0","0","0","0","0","0","0","0","0","0","0","0","0","0","0","0","f","a","b">>

SupportedChains == {BaseSepolia, BaseMainnet, Anvil}
\* the registry chains and one chain it does not know (Ethereum mainnet)
ChainIds == SupportedChains \cup {1}

addresses ==
  [ c \in SupportedChains |->
      IF c = BaseMainnet THEN WithManagerAndFactory(FACTORY_BASE)
      ELSE WithManagerAndFactory(FACTORY_ZERO) ]

\* getAddresses throws `Unsupported chain` exactly when this is false
getAddressesOk(chainId) == chainId \in DOMAIN addresses

getAddresses(chainId) == addresses[chainId]

-----------------------------------------------------------------------------
(* viem helpers, as the library computes them *)

\* the mixed-case spellings that are valid EIP-55 checksums
Checksummed ==
  { DELEGATION_MANAGER, FACTORY_BASE, NativeTokenPeriodTransferEnforcer,
    ERC20PeriodTransferEnforcer, NativeTokenTransferAmountEnforcer,
    ERC20TransferAmountEnforcer, ValueLteEnforcer, TimestampEnforcer,
    DelegationMetaSwapAdapter, USDC, OSO, WETH,
    SAFE_ADDRESS, MODULE_ADDRESS, ALICE, BOB }

\* isAddress(a): 0x + 40 hex digits, all lower case or a valid checksum
isAddress(a) ==
  /\ Len(a) = 42
  /\ SubSeq(a, 1, 2) = Prefix0x
  /\ \A i \in 3..42 : HexVal(a[i]) >= 0
  /\ (a = toLowerCase(a) \/ a \in Checksummed)

\* an address packed as a full ABI word
PackAddress_AbiWord(a) == Zeros(24) \o Digits(toLowerCase(a))

\* encodePacked of one `address`: 20 bytes, lower-cased
PackAddress(a) == Digits(toLowerCase(a))

\* encodePacked of one `uint256`: 32 bytes, left-padded
PackUint256(big) == Zeros(64 - Len(big)) \o big

RECURSIVE Concat(_)
Concat(parts) == IF Len(parts) = 0 THEN <<>> ELSE Head(parts) \o Concat(Tail(parts))

\* encodePacked(types, values): "0x" and the packed parts side by side
encodePacked(parts) == Prefix0x \o Concat(parts)

\* position of the decimal point of "i" or "i.f" (one past the end if none)
DotAt(s) == IF \E i \in 1..Len(s) : s[i] = "." THEN CHOOSE i \in 1..Len(s) : s[i] = "." ELSE Len(s) + 1

\* viem parseUnits(value, decimals): the fraction is padded with zeros to
\* `decimals` digits, or cut there and rounded half-up when it is longer
parseUnitsOf(value, decimals) ==
  LET integer == SubSeq(value, 1, DotAt(value) - 1)
      fraction == SubSeq(value, DotAt(value) + 1, Len(value))
  IN  IF Len(fraction) <= decimals
        THEN DecToBig(integer \o fraction \o Zeros(decimals - Len(fraction)))
        ELSE IF HexVal(fraction[decimals + 1]) >= 5
          THEN DecToBig(DecInc(integer \o SubSeq(fraction, 1, decimals)))
          ELSE DecToBig(integer \o SubSeq(fraction, 1, decimals))

\* the decimal strings the forms of the model are filled with
DecimalStrings ==
  {<<HexLower[n + 1]>> : n \in 0..MaxAmount} \cup {<<"0", ".", "5">>, <<"1">>, <<"2">>}

\* parseUnitsOf of those strings, computed once
ParsedUnits ==
  [ value \in DecimalStrings, decimals \in {0, 6, 18} |-> parseUnitsOf(value, decimals) ]

parseUnits(value, decimals) ==
  IF <<value, decimals>> \in DOMAIN ParsedUnits THEN ParsedUnits[value, decimals]
  ELSE parseUnitsOf(value, decimals)

\* parseEther(value)
parseEther(value) == parseUnits(value, 18)

\* parseFloat(value) > 0 for the decimal strings of the model
Positive(value) == \E i \in 1..Len(value) : HexVal(value[i]) >= 1

-----------------------------------------------------------------------------
(* lib/enforcers.ts *)

\* an optional number: <<>> is undefined, <<n>> is the number n
Undefined == <<>>
Some(n) == <<n>>

\* JavaScript truthiness of an optional number: undefined and 0 are falsy
Truthy(opt) == opt # Undefined /\ opt[1] # 0

periodToSeconds(period) ==
  CASE period = "hourly" -> 3600
    [] period = "daily" -> 86400
    [] period = "weekly" -> 604800
    [] period = "monthly" -> 2592000

Caveat(enforcer, terms) == [enforcer |-> enforcer, terms |-> terms]

\* the caveat with its two thresholds exchanged
TimestampCaveats_Swapped(addrs, expiryTimestamp, clock) ==
  IF Truthy(expiryTimestamp)
    THEN << Caveat(addrs.timestampEnforcer,
                   encodePacked(<<PackUint256(HexNum(expiryTimestamp[1])), PackUint256(HexNum(clock))>>)) >>
    ELSE << >>

\* the optional TimestampEnforcer caveat both builders end with
TimestampCaveats(addrs, expiryTimestamp, clock) ==
  IF Truthy(expiryTimestamp)
    THEN << Caveat(addrs.timestampEnforcer,
                   encodePacked(<<PackUint256(HexNum(clock)), PackUint256(HexNum(expiryTimestamp[1]))>>)) >>
    ELSE << >>

\* startClock and expiryClock are the two readings of Date.now(), in seconds
buildEthSpendingCaveats(chainId, amountEth, period, expiryTimestamp, startClock, expiryClock) ==
  LET addrs == getAddresses(chainId)
      amountWei == parseEther(amountEth)
      periodSeconds == periodToSeconds(period)
      startDate == startClock
  IN  << Caveat(addrs.nativeTokenPeriodTransferEnforcer,
                encodePacked(<<PackUint256(amountWei), PackUint256(HexNum(periodSeconds)),
                               PackUint256(HexNum(startDate))>>)) >>
      \o TimestampCaveats(addrs, expiryTimestamp, expiryClock)

\* the builder without its ValueLteEnforcer caveat
buildErc20SpendingCaveats_NoValueLte(chainId, tokenAddress, amount, decimals, period, expiryTimestamp, startClock, expiryClock) ==
  LET addrs == getAddresses(chainId)
  IN  << Caveat(addrs.erc20PeriodTransferEnforcer,
                encodePacked(<<PackAddress(tokenAddress),
                               PackUint256(parseUnits(amount, decimals)),
                               PackUint256(HexNum(periodToSeconds(period))),
                               PackUint256(HexNum(startClock))>>)) >>
      \o TimestampCaveats(addrs, expiryTimestamp, expiryClock)

buildErc20SpendingCaveats(chainId, tokenAddress, amount, decimals, period, expiryTimestamp, startClock, expiryClock) ==
  LET addrs == getAddresses(chainId)
      amountUnits == parseUnits(amount, decimals)
      periodSeconds == periodToSeconds(period)
      startDate == startClock
  IN  << Caveat(addrs.erc20PeriodTransferEnforcer,
                encodePacked(<<PackAddress(tokenAddress), PackUint256(amountUnits),
                               PackUint256(HexNum(periodSeconds)), PackUint256(HexNum(startDate))>>)),
         Caveat(addrs.valueLteEnforcer, encodePacked(<<PackUint256(HexNum(0))>>)) >>
      \o TimestampCaveats(addrs, expiryTimestamp, expiryClock)

\* the builder throws (unsupported chain, or encodePacked rejects the address)
buildErc20SpendingCaveatsThrows(chainId, tokenAddress) ==
  ~getAddressesOk(chainId) \/ ~isAddress(tokenAddress)

-----------------------------------------------------------------------------
(* lib/delegations.ts *)

EmptyHex == Prefix0x

DelegationStruct(delegate, delegator, authority, caveats, salt, signature) ==
  [ delegate |-> delegate, delegator |-> delegator, authority |-> authority,
    caveats |-> caveats, salt |-> salt, signature |-> signature ]

\* generateSalt(): 32 random bytes; the model draws them from SaltSeeds
generateSalt(seed) == Prefix0x \o PackUint256(HexNum(seed))

\* the typed data with the whole delegation spread into the message
buildDelegationTypedData_WithSignature(delegation, chainId) ==
  [ domain |-> [ name |-> "DelegationManager", version |-> "1", chainId |-> chainId,
                 verifyingContract |-> getAddresses(chainId).delegationManager ],
    primaryType |-> "Delegation",
    message |-> delegation ]

buildDelegationTypedData(delegation, chainId) ==
  LET addrs == getAddresses(chainId)
  IN  [ domain |-> [ name |-> "DelegationManager",
                     version |-> "1",
                     chainId |-> chainId,
                     verifyingContract |-> addrs.delegationManager ],
        primaryType |-> "Delegation",
        message |-> [ delegate |-> delegation.delegate,
                      delegator |-> delegation.delegator,
                      authority |-> delegation.authority,
                      caveats |-> [ i \in 1..Len(delegation.caveats) |->
                                      [ enforcer |-> delegation.caveats[i].enforcer,
                                        terms |-> delegation.caveats[i].terms ] ],
                      salt |-> delegation.salt ] ]

\* keccak256 as a symbolic digest: "0x#" and the bytes hashed (case of the
\* hex digits is immaterial to the bytes)
keccak256(bytes) == <<"0", "x", "#">> \o toLowerCase(Digits(bytes))

\* right-pad hex digits to a whole number of 32-byte words
PadWords(ds) == ds \o Zeros((64 - (Len(ds) % 64)) % 64)

\* ABI word of a static `address`
AbiAddress(a) == Zeros(24) \o PackAddress(a)

\* each caveat is hashed as encodeAbiParameters([address, bytes], [enforcer, terms])
computeDelegationHash(delegation) ==
  LET EncodeCaveat(c) ==
        Prefix0x \o AbiAddress(c.enforcer) \o PackUint256(HexNum(64))
                 \o PackUint256(HexNum(size(c.terms))) \o PadWords(Digits(c.terms))
      caveatHashes == [ i \in 1..Len(delegation.caveats) |->
                          keccak256(EncodeCaveat(delegation.caveats[i])) ]
      caveatsHash == keccak256(encodePacked([ i \in 1..Len(caveatHashes) |->
                                                Digits(caveatHashes[i]) ]))
  IN  keccak256(Prefix0x \o AbiAddress(delegation.delegate)
                         \o AbiAddress(delegation.delegator)
                         \o PadWords(Digits(delegation.authority))
                         \o PadWords(Digits(caveatsHash))
                         \o PackUint256(BigInt(delegation.salt)))

-----------------------------------------------------------------------------
(* State *)

VARIABLES
  pureIn,              \* arguments handed to the library functions
  pureOut,             \* what the last library call returned or threw
  page,                \* which page this session is on
  chainId,             \* safe.chainId, or the wallet's chain on the standalone page
  isConnected,         \* useAccount().isConnected (standalone page)
  address,             \* useAccount().address (standalone page), optional
  storage,             \* localStorage['gator-delegations'], parsed
  signing,             \* CreateDelegation: signing
  signed,              \* CreateDelegation: signed
  signedDelegation,    \* CreateDelegation: signedDelegation, optional
  error,               \* the page's error message, optional
  grant,               \* the handleGrant call in flight
  selectedDelegation,  \* RedeemDelegation: selectedDelegation, optional
  parsedDelegation,    \* StandaloneRedeem: parsedDelegation, optional
  form,                \* the redeem form
  swapForm,            \* the swap form
  swapQuotes,          \* the quotes fetched, optional
  selectedQuote,       \* the quote chosen, optional
  fetchingQuotes,      \* fetchingQuotes
  executing,           \* executing
  executed,            \* executed
  txHash,              \* txHash, optional
  fetchCall,           \* the fetchSwapQuotes call in flight
  execCall,            \* the redemption handler in flight
  safeMessage,         \* the Safe's view of the last message it was asked to sign
  signRequest,         \* the last typed data handed to a signer, optional
  sentTx,              \* the last transaction handed to the wallet or Safe, optional
  jsonInput,           \* ImportDelegation: jsonInput
  imported,            \* ImportDelegation: imported, optional
  saved,               \* ImportDelegation: saved
  delegations,         \* Delegations: delegations
  revoking,            \* Delegations: revoking, optional
  revokeCall,          \* the handleRevoke call in flight
  moduleStatus,        \* Home: moduleStatus
  moduleAddress,       \* Home: moduleAddress, optional
  installing,          \* Home: installing
  checkCall,           \* the checkModuleStatus call in flight
  installCall,         \* the installModule call in flight
  moduleEnabled,       \* what isModuleEnabled(module) of the Safe reads on chain
  step,                \* CreateDelegation: step
  wizardForm,          \* CreateDelegation: the fields of the wizard
  loading,             \* ModuleTransfer: loading
  balances,            \* ModuleTransfer: balances
  refreshing,          \* ModuleTransfer: refreshing
  sending,             \* ModuleTransfer: sending
  selectedAssets,      \* ModuleTransfer: selectedAssets
  balanceCall,         \* the fetchBalances call in flight
  transferCall         \* the handleTransfer call in flight

pureVars == <<pureIn, pureOut>>

walletVars == <<chainId, isConnected, address>>

createVars == <<signing, signed, signedDelegation, grant>>

redeemVars ==
  <<selectedDelegation, parsedDelegation, form, swapForm, swapQuotes, selectedQuote,
    fetchingQuotes, executing, executed, txHash, fetchCall, execCall>>

outsideVars == <<safeMessage, signRequest, sentTx>>

adminVars ==
  <<jsonInput, imported, saved, delegations, revoking, revokeCall, moduleStatus,
    moduleAddress, installing, checkCall, installCall, moduleEnabled>>

wizardVars == <<step, wizardForm>>

withdrawVars ==
  <<loading, balances, refreshing, sending, selectedAssets, balanceCall, transferCall>>

pageVars ==
  <<wizardVars, withdrawVars, adminVars, page, walletVars, storage, error, createVars, redeemVars, outsideVars>>

vars == <<pureVars, pageVars>>

\* null, and an optional value that is present
Null == << >>

\* no handler call in flight
Idle == [pc |-> "idle"]

\* no message in the Safe's queue
NoSafeMessage == [pending |-> FALSE, confirmations |-> 0]

\* the redeem form and the swap form as the pages construct them
EmptyForm ==
  [ amount |-> <<>>, recipient |-> <<>>, tokenAddress |-> Undefined,
    tokenDecimals |-> Undefined, delegationJson |-> <<>> ]

EmptySwapForm == [destinationToken |-> <<>>, sourceAmount |-> <<>>]

\* the component state of the Create page after construction
CreateInit ==
  /\ signing = FALSE
  /\ signed = FALSE
  /\ signedDelegation = Null
  /\ grant = Idle

\* the component state of either redeem page after construction
RedeemInit ==
  /\ selectedDelegation = Null
  /\ parsedDelegation = Null
  /\ form = EmptyForm
  /\ swapForm = EmptySwapForm
  /\ swapQuotes = Null
  /\ selectedQuote = Null
  /\ fetchingQuotes = FALSE
  /\ executing = FALSE
  /\ executed = FALSE
  /\ txHash = Null
  /\ fetchCall = Idle
  /\ execCall = Idle

\* the component state of the Home, Import and Delegations pages after
\* construction, and a Safe on which the module is not enabled
AdminInit ==
  /\ jsonInput = Null
  /\ imported = Null
  /\ saved = FALSE
  /\ delegations = << >>
  /\ revoking = Null
  /\ revokeCall = Idle
  /\ moduleStatus = "loading"
  /\ moduleAddress = Null
  /\ installing = FALSE
  /\ checkCall = Idle
  /\ installCall = Idle
  /\ moduleEnabled = FALSE

\* the fields of the wizard after construction
InitialWizard ==
  [ wizard |-> "categories", delegate |-> << >>, category |-> "spendingLimit",
    permType |-> "eth", amount |-> << >>, period |-> "daily", tokenOption |-> "usdc",
    customTokenAddress |-> << >>, customTokenDecimals |-> 18,
    expiryEnabled |-> FALSE, expiryDate |-> "",
    sendType |-> "eth", sendAmount |-> << >>, sendTokenOption |-> "usdc",
    sendCustomAddress |-> << >>, sendCustomDecimals |-> 18,
    receiveTokenOption |-> "usdc",
    receiveCustomAddress |-> << >>, receiveCustomDecimals |-> 18,
    receiveAmount |-> << >> ]

\* the wizard after construction
WizardInit ==
  /\ step = 1
  /\ wizardForm = InitialWizard

\* the component state of ModuleTransfer after construction, its effects not
\* yet run
WithdrawInit ==
  /\ loading = TRUE
  /\ balances = << >>
  /\ refreshing = FALSE
  /\ sending = FALSE
  /\ selectedAssets = {}
  /\ balanceCall = Idle
  /\ transferCall = Idle

OutsideInit ==
  /\ safeMessage = NoSafeMessage
  /\ signRequest = Null
  /\ sentTx = Null


-----------------------------------------------------------------------------
(* The library functions applied to bounded inputs *)

\* Date.now() / 1000, floored
Clock == {1700000000 + i : i \in 0..(MaxClock - 1)}

\* a signature as a wallet returns it
SIGNATURE == <<"0", "x", "5", "1", "9">>

NoTypedData == [domain |-> <<>>, primaryType |-> "", message |-> <<>>]

\* kind: which call produced it; arg: the delegation handed to the call
PureResult(kind, caveats, typedData, token, arg) ==
  [kind |-> kind, caveats |-> caveats, typedData |-> typedData, token |-> token,
   arg |-> arg]

\* no page is open: the library functions are exercised on their own
PureInit ==
  /\ pureIn \in [ chainId : ChainIds,
                  tokenAddress : {USDC, OSO_LOWER, WETH, BAD_CHECKSUM},
                  amount : DecimalStrings,
                  decimals : {0, 6, 18},
                  period : {"hourly", "daily", "weekly", "monthly"},
                  expiryTimestamp : {Undefined, Some(0)} \cup {Some(t + 86400) : t \in Clock},
                  startClock : Clock, expiryClock : Clock ]
  /\ pureIn.startClock <= pureIn.expiryClock
  /\ pureOut = PureResult("none", <<>>, NoTypedData, <<>>, <<>>)
  /\ page = "none"
  /\ chainId = BaseSepolia
  /\ isConnected = FALSE
  /\ address = Null
  /\ storage = << >>
  /\ error = Null
  /\ CreateInit
  /\ RedeemInit
  /\ OutsideInit
  /\ AdminInit
  /\ WizardInit
  /\ WithdrawInit

CallBuildErc20SpendingCaveats ==
  /\ pureOut.kind = "none"
  /\ pureOut' =
       IF buildErc20SpendingCaveatsThrows(pureIn.chainId, pureIn.tokenAddress)
         THEN PureResult("throw", <<>>, NoTypedData, <<>>, <<>>)
         ELSE PureResult("erc20Caveats",
                buildErc20SpendingCaveats(pureIn.chainId, pureIn.tokenAddress, pureIn.amount,
                  pureIn.decimals, pureIn.period, pureIn.expiryTimestamp,
                  pureIn.startClock, pureIn.expiryClock),
                NoTypedData, <<>>, <<>>)
  /\ UNCHANGED <<pureIn, pageVars>>

CallBuildEthSpendingCaveats ==
  /\ pureOut.kind = "none"
  /\ pureOut' =
       IF ~getAddressesOk(pureIn.chainId)
         THEN PureResult("throw", <<>>, NoTypedData, <<>>, <<>>)
         ELSE PureResult("ethCaveats",
                buildEthSpendingCaveats(pureIn.chainId, pureIn.amount, pureIn.period,
                  pureIn.expiryTimestamp, pureIn.startClock, pureIn.expiryClock),
                NoTypedData, <<>>, <<>>)
  /\ UNCHANGED <<pureIn, pageVars>>

\* the decoder of fetchSwapQuotes applied to a caveat list: the first 20
\* bytes of the terms of the ERC20PeriodTransferEnforcer caveat
FindCaveat(caveats, enforcer) ==
  IF \E i \in 1..Len(caveats) : toLowerCase(caveats[i].enforcer) = toLowerCase(enforcer)
    THEN << caveats[CHOOSE i \in 1..Len(caveats) :
                      /\ toLowerCase(caveats[i].enforcer) = toLowerCase(enforcer)
                      /\ \A j \in 1..(i - 1) :
                           toLowerCase(caveats[j].enforcer) # toLowerCase(enforcer)] >>
    ELSE << >>

SourceTokenOf(caveat) == Prefix0x \o slice(caveat.terms, 2, 42)

CallDecodeSourceToken ==
  /\ pureOut.kind \in {"erc20Caveats", "ethCaveats"}
  /\ LET found == FindCaveat(pureOut.caveats,
                             getAddresses(pureIn.chainId).erc20PeriodTransferEnforcer)
     IN  pureOut' =
           IF found = << >>
             THEN PureResult("throw", pureOut.caveats, NoTypedData, <<>>, <<>>)
             ELSE PureResult("sourceToken", pureOut.caveats, NoTypedData,
                             SourceTokenOf(found[1]), <<>>)
  /\ UNCHANGED <<pureIn, pageVars>>

\* buildDelegationTypedData on a delegation that carries the caveats built
CallBuildDelegationTypedData ==
  /\ pureOut.kind \in {"none", "erc20Caveats", "ethCaveats"}
  /\ \E delegate \in {WETH, OSO}, signature \in {EmptyHex, SIGNATURE} :
       LET delegation == DelegationStruct(delegate, USDC, ROOT_AUTHORITY, pureOut.caveats,
                                          generateSalt(1), signature)
       IN  pureOut' =
             IF ~getAddressesOk(pureIn.chainId)
               THEN PureResult("throw", pureOut.caveats, NoTypedData, <<>>, <<delegation>>)
               ELSE PureResult("typedData", pureOut.caveats,
                               buildDelegationTypedData(delegation, pureIn.chainId),
                               <<>>, <<delegation>>)
  /\ UNCHANGED <<pureIn, pageVars>>

PureNext ==
  \/ CallBuildErc20SpendingCaveats
  \/ CallBuildEthSpendingCaveats
  \/ CallDecodeSourceToken
  \/ CallBuildDelegationTypedData

SpecPure == PureInit /\ [][PureNext]_vars

-----------------------------------------------------------------------------
(* lib/storage.ts *)

\* StoredDelegation['meta']; absent optional fields are Undefined
Meta(label, scopeType, createdAt, chain, safeAddress, moduleAddr, status, delegationHash, amount, period, tokenAddress, expiryDate) ==
  [ label |-> label, scopeType |-> scopeType, createdAt |-> createdAt, chainId |-> chain,
    safeAddress |-> safeAddress, moduleAddress |-> moduleAddr, status |-> status,
    delegationHash |-> delegationHash, amount |-> amount, period |-> period,
    tokenAddress |-> tokenAddress, expiryDate |-> expiryDate ]

StoredDelegation(delegation, meta) == [delegation |-> delegation, meta |-> meta]

getDelegations == storage

\* saving without the filter on the hash
saveDelegation_NoFilter(existing, delegation) == Append(existing, delegation)

\* the list saveDelegation writes back
saveDelegation(existing, delegation) ==
  LET filtered == SelectSeq(existing,
                    LAMBDA d : d.meta.delegationHash # delegation.meta.delegationHash)
  IN  Append(filtered, delegation)

\* the list removeDelegation writes back
removeDelegation(existing, delegationHash) ==
  SelectSeq(existing, LAMBDA d : d.meta.delegationHash # delegationHash)

\* an update that gives the status to every record
updateDelegationStatus_Every(existing, delegationHash, status) ==
  [ i \in 1..Len(existing) |-> [existing[i] EXCEPT !.meta.status = status] ]

\* the list updateDelegationStatus writes back
updateDelegationStatus(existing, delegationHash, status) ==
  [ i \in 1..Len(existing) |->
      IF existing[i].meta.delegationHash = delegationHash
        THEN [existing[i] EXCEPT !.meta.status = status]
        ELSE existing[i] ]

-----------------------------------------------------------------------------
(* components/CreateDelegation: the forms handleGrant is started with *)

\* how many owners must confirm before the Safe's signature is valid
SafeThreshold == 2

\* the bytes generateSalt draws
SaltSeeds == {1, 2}

\* Math.floor(new Date(date).getTime() / 1000) of the expiry date field: empty,
\* the epoch, or a day after Clock
DateSeconds(date) == IF date = "2023-11-16" THEN 1700092800 ELSE 0

periodLabel(period) ==
  CASE period = "hourly" -> <<"p", "e", "r", " ", "h", "o", "u", "r">>
    [] period = "daily" -> <<"p", "e", "r", " ", "d", "a", "y">>
    [] period = "weekly" -> <<"p", "e", "r", " ", "w", "e", "e", "k">>
    [] period = "monthly" -> <<"p", "e", "r", " ", "m", "o", "n", "t", "h">>

KNOWN_TOKENS_WIZARD ==
  [ usdc |-> [address |-> USDC, decimals |-> 6, symbol |-> <<"U", "S", "D", "C">>],
    oso |-> [address |-> OSO_LOWER, decimals |-> 18, symbol |-> <<"O", "S", "O">>] ]

getTokenAddress(option, customAddr) ==
  IF option = "custom" THEN customAddr ELSE KNOWN_TOKENS_WIZARD[option].address

getTokenDecimals(option, customDec) ==
  IF option = "custom" THEN customDec ELSE KNOWN_TOKENS_WIZARD[option].decimals

getTokenSymbol(option) ==
  IF option = "custom" THEN <<"t", "o", "k", "e", "n", "s">>
  ELSE KNOWN_TOKENS_WIZARD[option].symbol

\* amounts typed into the wizard
WizardAmounts == {<<"1">>, <<"0", ".", "5">>}

\* the fields of the wizard; the older wizard (wizard = "limits") has no
\* category and takes the token address and decimals as typed
GrantForm(wizard, delegate, category, permType, amount, period, tokenOption, customTokenAddress, customTokenDecimals, expiryEnabled, expiryDate, sendType, sendAmount, sendTokenOption, receiveTokenOption, receiveAmount) ==
  [ wizard |-> wizard, delegate |-> delegate, category |-> category, permType |-> permType,
    amount |-> amount, period |-> period, tokenOption |-> tokenOption,
    customTokenAddress |-> customTokenAddress, customTokenDecimals |-> customTokenDecimals,
    expiryEnabled |-> expiryEnabled, expiryDate |-> expiryDate,
    sendType |-> sendType, sendAmount |-> sendAmount, sendTokenOption |-> sendTokenOption,
    sendCustomAddress |-> WETH, sendCustomDecimals |-> 18,
    receiveTokenOption |-> receiveTokenOption,
    receiveCustomAddress |-> WETH, receiveCustomDecimals |-> 18,
    receiveAmount |-> receiveAmount ]

\* the form as filled in when Grant is clicked: spending limits, transfer intents
GrantForms ==
  { GrantForm(w, ALICE, "spendingLimit", tk[1], am, pe, tk[2], tk[3], tk[4], ex[1], ex[2],
              "eth", <<>>, "usdc", "usdc", <<>>) :
      w \in {"limits", "categories"}, am \in WizardAmounts, pe \in {"hourly", "daily"},
      tk \in {<<"eth", "usdc", <<>>, 18>>, <<"erc20", "custom", WETH, 18>>,
              <<"erc20", "custom", OSO_LOWER, 6>>, <<"erc20", "custom", BAD_CHECKSUM, 6>>},
      ex \in {<<FALSE, "">>, <<FALSE, "2023-11-16">>, <<TRUE, "2023-11-16">>,
              <<TRUE, "1970-01-01">>, <<TRUE, "">>} }
  \cup
  { GrantForm("categories", ALICE, "transferIntent", "eth", <<>>, "daily", "usdc", <<>>, 18,
              FALSE, "", sd[1], sa, sd[2], ro, ra) :
      sd \in {<<"eth", "usdc">>, <<"erc20", "usdc">>, <<"erc20", "custom">>},
      sa \in WizardAmounts, ro \in {"usdc", "oso", "custom"}, ra \in WizardAmounts }

\* the token of a spending limit as each wizard derives it
TokenAddressOf(f) ==
  IF f.wizard = "limits" THEN f.customTokenAddress
  ELSE getTokenAddress(f.tokenOption, f.customTokenAddress)

\* canProceed() of every step before the review step
canProceed(f) ==
  /\ isAddress(f.delegate)
  /\ IF f.category = "spendingLimit"
       THEN /\ f.amount # <<>> /\ Positive(f.amount)
            /\ f.permType = "erc20" => isAddress(TokenAddressOf(f))
            /\ ~(f.expiryEnabled /\ f.expiryDate = "")
       ELSE /\ f.sendAmount # <<>> /\ Positive(f.sendAmount)
            /\ f.receiveAmount # <<>> /\ Positive(f.receiveAmount)
            /\ f.sendType = "erc20" =>
                 isAddress(getTokenAddress(f.sendTokenOption, f.sendCustomAddress))
            /\ isAddress(getTokenAddress(f.receiveTokenOption, f.receiveCustomAddress))

\* the chains handleGrant and the swap handler can build a client for
chains == {BaseSepolia, BaseMainnet}

-----------------------------------------------------------------------------
(* components/CreateDelegation: handleGrant *)

\* caveats with an empty args field each, as the kit and a redemption carry them
WithArgs_Reversed(caveats) ==
  [ i \in 1..Len(caveats) |->
      [ enforcer |-> caveats[Len(caveats) + 1 - i].enforcer,
        terms |-> caveats[Len(caveats) + 1 - i].terms, args |-> EmptyHex ] ]

WithArgs(caveats) ==
  [ i \in 1..Len(caveats) |->
      [ enforcer |-> caveats[i].enforcer, terms |-> caveats[i].terms, args |-> EmptyHex ] ]

\* `expiryEnabled && expiryDate ? seconds : undefined`
ExpiryTs(f) ==
  IF f.expiryEnabled /\ f.expiryDate # "" THEN Some(DateSeconds(f.expiryDate)) ELSE Undefined

\* caveats of the older wizard: the builders of lib/enforcers
LimitsCaveats(f, chain, now) ==
  IF f.permType = "eth"
    THEN buildEthSpendingCaveats(chain, f.amount, f.period, ExpiryTs(f), now, now)
    ELSE buildErc20SpendingCaveats(chain, f.customTokenAddress, f.amount,
                                   f.customTokenDecimals, f.period, ExpiryTs(f), now, now)

\* two uint128 side by side, the terms the kit's timestamp caveat carries
PackUint128(big) == Zeros(32 - Len(big)) \o big

\* createDelegation of @metamask/smart-accounts-kit is outside the repository:
\* it returns the caveats of the scope followed by the additional caveats; the
\* order inside the scope is the kit's choice
createDelegationCaveats(f, chain, now) ==
  LET addrs == getAddresses(chain)
      native == Caveat(addrs.nativeTokenPeriodTransferEnforcer,
                  encodePacked(<<PackUint256(parseEther(f.amount)),
                                 PackUint256(HexNum(periodToSeconds(f.period))),
                                 PackUint256(HexNum(now))>>))
      erc20 == Caveat(addrs.erc20PeriodTransferEnforcer,
                 encodePacked(<<PackAddress(TokenAddressOf(f)),
                                PackUint256(parseUnits(f.amount, (IF f.wizard = "limits" THEN f.customTokenDecimals
                                 ELSE getTokenDecimals(f.tokenOption, f.customTokenDecimals)))),
                                PackUint256(HexNum(periodToSeconds(f.period))),
                                PackUint256(HexNum(now))>>))
      valueLte == Caveat(addrs.valueLteEnforcer, encodePacked(<<PackUint256(HexNum(0))>>))
      additional ==
        IF Truthy(ExpiryTs(f))
          THEN << Caveat(addrs.timestampEnforcer,
                         encodePacked(<<PackUint128(HexNum(now)),
                                        PackUint128(HexNum(ExpiryTs(f)[1]))>>)) >>
          ELSE << >>
  IN  IF f.permType = "eth"
        THEN { WithArgs(<<native>> \o additional) }
        ELSE { WithArgs(<<valueLte, erc20>> \o additional),
               WithArgs(<<erc20, valueLte>> \o additional) }

\* the caveats of the transfer-intent branch, before args are added
TransferIntentCaveats(f, chain, moduleAddr) ==
  LET addrs == getAddresses(chain)
      sendTokenAddr == getTokenAddress(f.sendTokenOption, f.sendCustomAddress)
      sendTokenDec == getTokenDecimals(f.sendTokenOption, f.sendCustomDecimals)
      receiveTokenAddr == getTokenAddress(f.receiveTokenOption, f.receiveCustomAddress)
      receiveTokenDec == getTokenDecimals(f.receiveTokenOption, f.receiveCustomDecimals)
      spending ==
        IF f.sendType = "eth"
          THEN << Caveat(addrs.nativeTokenTransferAmountEnforcer,
                         encodePacked(<<PackUint256(parseEther(f.sendAmount))>>)) >>
          ELSE << Caveat(addrs.erc20TransferAmountEnforcer,
                         encodePacked(<<PackAddress(sendTokenAddr),
                                        PackUint256(parseUnits(f.sendAmount, sendTokenDec))>>)),
                  Caveat(addrs.valueLteEnforcer, encodePacked(<<PackUint256(HexNum(0))>>)) >>
  IN  spending \o
      << Caveat(addrs.erc20MultiOperationIncreaseBalanceEnforcer,
                encodePacked(<<PackAddress(receiveTokenAddr), PackAddress(moduleAddr),
                               PackUint256(parseUnits(f.receiveAmount, receiveTokenDec))>>)) >>

\* every caveat list handleGrant can have built for a form: `caveats` of the
\* older wizard, `sdkDelegation.caveats` of the newer one
GrantCaveats(f, chain, moduleAddr, now) ==
  IF f.wizard = "limits" THEN { LimitsCaveats(f, chain, now) }
  ELSE IF f.category = "spendingLimit" THEN createDelegationCaveats(f, chain, now)
  ELSE { WithArgs(TransferIntentCaveats(f, chain, moduleAddr)) }

\* metaLabel
GrantLabel(f) ==
  IF f.category = "spendingLimit"
    THEN f.amount \o <<" ">>
         \o (IF f.permType = "eth" THEN <<"E", "T", "H">>
             ELSE IF f.wizard = "limits" THEN <<"t", "o", "k", "e", "n", "s">>
             ELSE getTokenSymbol(f.tokenOption))
         \o <<" ">> \o periodLabel(f.period)
    ELSE <<"I", "n", "t", "e", "n", "t", ":", " ">> \o f.sendAmount \o <<" ">>
         \o (IF f.sendType = "eth" THEN <<"E", "T", "H">> ELSE getTokenSymbol(f.sendTokenOption))
         \o <<" ", "-", ">", " ">> \o f.receiveAmount \o <<" ">>
         \o getTokenSymbol(f.receiveTokenOption)

\* the delegation handed to buildDelegationTypedData: signature '0x', the
\* caveats of the SDK mapped with `c => ({ enforcer: c.enforcer, terms: c.terms })`
GrantDelegation(f, moduleAddr, caveats, seed) ==
  DelegationStruct(f.delegate, moduleAddr, ROOT_AUTHORITY,
                   IF f.wizard = "limits" THEN caveats
                   ELSE [ i \in 1..Len(caveats) |->
                            Caveat(caveats[i].enforcer, caveats[i].terms) ],
                   generateSalt(seed), EmptyHex)

\* `result?.signature || result?.safeTxHash || '0x'`
SignatureOf(result) ==
  IF result.signature # <<>> THEN result.signature
  ELSE IF result.safeTxHash # <<>> THEN result.safeTxHash
  ELSE EmptyHex

\* the record handleGrant stores
GrantStored(f, chain, delegation, moduleAddr, result, createdAt) ==
  StoredDelegation(
    [delegation EXCEPT !.signature = SignatureOf(result)],
    Meta(GrantLabel(f),
         IF f.category = "transferIntent" THEN "transferIntent"
         ELSE IF f.permType = "eth" THEN "ethSpendingLimit" ELSE "erc20SpendingLimit",
         createdAt, chain, SAFE_ADDRESS, moduleAddr,
         "signed", computeDelegationHash(delegation),
         IF f.category = "spendingLimit" THEN f.amount ELSE f.sendAmount,
         IF f.category = "spendingLimit" THEN Some(f.period) ELSE Undefined,
         IF f.category = "spendingLimit" /\ f.permType = "erc20"
           THEN Some(TokenAddressOf(f)) ELSE Undefined,
         IF f.expiryEnabled THEN Some(f.expiryDate) ELSE Undefined))

-----------------------------------------------------------------------------
(* The Safe, as sdk.txs.signTypedMessage sees it *)

\* the hash of a transaction proposed to the Safe
SAFE_TX_HASH == <<"0", "x", "7", "a", "f", "e">>

SignResult(signature, safeTxHash, messageHash) ==
  [signature |-> signature, safeTxHash |-> safeTxHash, messageHash |-> messageHash]

\* what the promise can resolve with once `confirmations` owners have signed:
\* the hash of the proposed transaction or message as soon as the first owner
\* has, a signature once the threshold is met
SignResults(confirmations) ==
  (IF confirmations >= 1
     THEN {SignResult(<<>>, SAFE_TX_HASH, <<>>), 
           SignResult(<<>>, <<>>, <<"0", "x", "3", "e", "5", "5">>)}
     ELSE {})
  \cup (IF confirmations >= SafeThreshold THEN {SignResult(SIGNATURE, <<>>, <<>>)} ELSE {})

\* an owner of the Safe confirms the message that is waiting
SafeOwnerConfirms ==
  /\ safeMessage.pending
  /\ safeMessage.confirmations < SafeThreshold
  /\ safeMessage' = [safeMessage EXCEPT !.confirmations = @ + 1]
  /\ UNCHANGED <<pureVars, wizardVars, withdrawVars, adminVars, page, walletVars, storage, error, createVars, redeemVars,
                 signRequest, sentTx>>

\* a request for a signature: who is asked, the delegation the typed data was
\* built from, the typed data, the delegation a redelegation chains to, and
\* what the signer answered once it has
SignRequest(signer, delegation, typedData, parent) ==
  [ signer |-> signer, delegation |-> delegation, typedData |-> typedData,
    parent |-> parent, result |-> Null ]

-----------------------------------------------------------------------------
(* components/CreateDelegation: handleGrant, step by step *)

\* Grant Permission is clicked; the handler runs up to `await readContract`
handleGrant_click ==
  /\ page = "create"
  /\ ~signing
  /\ ~signed
  /\ \E f \in GrantForms :
       /\ canProceed(f)
       /\ IF chainId \notin chains
            THEN /\ error' = Some("Unsupported chain")
                 /\ UNCHANGED <<signing, grant>>
            ELSE /\ error' = Null
                 /\ signing' = TRUE
                 /\ grant' = [pc |-> "predict", form |-> f]
  /\ UNCHANGED <<pureVars, wizardVars, withdrawVars, adminVars, page, walletVars, storage, signed, signedDelegation, redeemVars,
                 outsideVars>>

\* predictAddress resolves; the handler builds the delegation and the typed
\* data and runs up to `await sdk.txs.signTypedMessage`
handleGrant_predicted ==
  /\ grant.pc = "predict"
  /\ \E now \in Clock, seed \in SaltSeeds :
       \E caveats \in GrantCaveats(grant.form, chainId, MODULE_ADDRESS, now) :
         LET delegation == GrantDelegation(grant.form, MODULE_ADDRESS, caveats, seed)
             typedData == buildDelegationTypedData(delegation, chainId)
         IN  /\ grant' = [pc |-> "sign", form |-> grant.form, caveats |-> caveats,
                          delegation |-> delegation, moduleAddress |-> MODULE_ADDRESS,
                          now |-> now]
             /\ signRequest' = Some(SignRequest(SAFE_ADDRESS, delegation, typedData, Null))
             /\ safeMessage' = [pending |-> TRUE, confirmations |-> 0]
  /\ UNCHANGED <<pureVars, wizardVars, withdrawVars, adminVars, page, walletVars, storage, error, signing, signed,
                 signedDelegation, redeemVars, sentTx>>

\* readContract rejects, or createDelegation throws: catch and finally
handleGrant_failed ==
  /\ grant.pc = "predict"
  /\ error' = Some("Failed to sign delegation")
  /\ signing' = FALSE
  /\ grant' = Idle
  /\ UNCHANGED <<pureVars, wizardVars, withdrawVars, adminVars, page, walletVars, storage, signed, signedDelegation, redeemVars,
                 outsideVars>>

\* signTypedMessage resolves; the handler stores the delegation
handleGrant_signed ==
  /\ grant.pc = "sign"
  /\ \E result \in SignResults(safeMessage.confirmations), createdAt \in Clock :
       /\ createdAt >= grant.now
       /\ LET stored == GrantStored(grant.form, chainId, grant.delegation,
                                    grant.moduleAddress, result, createdAt)
          IN  /\ storage' = saveDelegation(getDelegations, stored)
              /\ signedDelegation' = Some(stored)
       /\ signRequest' = Some([signRequest[1] EXCEPT !.result = Some(result)])
  /\ signed' = TRUE
  /\ signing' = FALSE
  /\ grant' = Idle
  /\ UNCHANGED <<pureVars, wizardVars, withdrawVars, adminVars, page, walletVars, error, redeemVars, safeMessage, sentTx>>

\* signTypedMessage rejects (the user dismisses the request): catch and finally
handleGrant_rejected ==
  /\ grant.pc = "sign"
  /\ safeMessage.confirmations = 0
  /\ error' = Some("User rejected")
  /\ signing' = FALSE
  /\ grant' = Idle
  /\ safeMessage' = NoSafeMessage
  /\ signRequest' = Null
  /\ UNCHANGED <<pureVars, wizardVars, withdrawVars, adminVars, page, walletVars, storage, signed, signedDelegation, redeemVars,
                 sentTx>>

CreateNext ==
  \/ handleGrant_click
  \/ handleGrant_predicted
  \/ handleGrant_failed
  \/ handleGrant_signed
  \/ handleGrant_rejected

-----------------------------------------------------------------------------
(* The delegations a redeem page can be given *)

\* the first reading of Clock
Epoch0 == 1700000000

\* meta of a record that was made for `delegate` on chain `chain`
CatalogueMeta(scopeType, chain, delegation, tokenAddress) ==
  Meta(<<"1">>, scopeType, Epoch0, chain, ALICE, delegation.delegator, "signed",
       computeDelegationHash(delegation), <<"1">>, Some("daily"), tokenAddress, Undefined)

EthRecord(delegate, chain) ==
  LET delegation ==
        DelegationStruct(delegate, MODULE_ADDRESS, ROOT_AUTHORITY,
          buildEthSpendingCaveats(BaseSepolia, <<"1">>, "daily", Undefined, Epoch0, Epoch0),
          generateSalt(1), SIGNATURE)
  IN  StoredDelegation(delegation,
                       CatalogueMeta("ethSpendingLimit", chain, delegation, Undefined))

Erc20Record(delegate, chain) ==
  LET delegation ==
        DelegationStruct(delegate, MODULE_ADDRESS, ROOT_AUTHORITY,
          buildErc20SpendingCaveats(BaseSepolia, USDC, <<"1">>, 6, "daily",
                                    Some(DateSeconds("2023-11-16")), Epoch0, Epoch0),
          generateSalt(2), SIGNATURE)
  IN  StoredDelegation(delegation,
                       CatalogueMeta("erc20SpendingLimit", chain, delegation, Some(USDC)))

\* a swap intent: the period caveat is not the first of its list
SwapRecord(delegate, chain) ==
  LET erc20 == buildErc20SpendingCaveats(BaseSepolia, USDC, <<"2">>, 6, "daily",
                                         Undefined, Epoch0, Epoch0)
      delegation ==
        DelegationStruct(delegate, MODULE_ADDRESS, ROOT_AUTHORITY, <<erc20[2], erc20[1]>>,
                         generateSalt(1), SIGNATURE)
  IN  StoredDelegation(delegation,
                       CatalogueMeta("swapIntent", chain, delegation, Some(USDC)))

\* a swap intent without an ERC20PeriodTransferEnforcer caveat
SwapEthRecord(delegate, chain) ==
  LET delegation ==
        DelegationStruct(delegate, MODULE_ADDRESS, ROOT_AUTHORITY,
          buildEthSpendingCaveats(BaseSepolia, <<"2">>, "daily", Undefined, Epoch0, Epoch0),
          generateSalt(2), SIGNATURE)
  IN  StoredDelegation(delegation, CatalogueMeta("swapIntent", chain, delegation, Undefined))

\* a transfer intent as the wizard stores it: no tokenAddress in its meta
TransferRecord(delegate, chain) ==
  LET f == GrantForm("categories", delegate, "transferIntent", "eth", <<>>, "daily", "usdc",
                     <<>>, 18, FALSE, "", "erc20", <<"1">>, "usdc", "oso", <<"1">>)
      delegation ==
        GrantDelegation(f, MODULE_ADDRESS,
                        WithArgs(TransferIntentCaveats(f, BaseSepolia, MODULE_ADDRESS)), 1)
  IN  GrantStored(f, chain, delegation, MODULE_ADDRESS, SignResult(SIGNATURE, <<>>, <<>>),
                  Epoch0)

\* the JSON texts pasted into the standalone page, parsed: the delegate is
\* spelled in lower case
PastedRecords ==
  { EthRecord(toLowerCase(ALICE), BaseSepolia), Erc20Record(toLowerCase(ALICE), BaseSepolia),
    SwapRecord(toLowerCase(ALICE), BaseSepolia), SwapEthRecord(toLowerCase(ALICE), BaseSepolia) }

\* what localStorage can hold when the Redeem page of the Safe app opens
StoredLists ==
  LET mine == toLowerCase(SAFE_ADDRESS)
  IN  { << >>,
        << SwapRecord(mine, BaseSepolia), EthRecord(mine, BaseSepolia),
           [Erc20Record(mine, BaseSepolia) EXCEPT !.meta.scopeType = "ethSpendingLimit"] >>,
        << Erc20Record(mine, BaseSepolia), SwapEthRecord(mine, BaseSepolia),
           [EthRecord(mine, BaseSepolia) EXCEPT !.meta.status = "pending"] >>,
        << SwapRecord(mine, BaseMainnet), Erc20Record(ALICE, BaseMainnet),
           TransferRecord(mine, BaseMainnet) >>,
        << [EthRecord(mine, Anvil) EXCEPT !.meta.status = "revoked"],
           SwapRecord(mine, Anvil) >> }

-----------------------------------------------------------------------------
(* What the two redeem pages share *)

\* the delegation the page works on
Loaded == IF page = "standalone" THEN parsedDelegation ELSE selectedDelegation

isSwapIntent == Loaded # Null /\ Loaded[1].meta.scopeType = "swapIntent"

\* the filters without the test of the status
myDelegations_AnyStatus ==
  LET stored == SelectSeq(getDelegations, LAMBDA d : d.meta.chainId = chainId)
  IN  SelectSeq(stored,
        LAMBDA d : toLowerCase(d.delegation.delegate) = toLowerCase(SAFE_ADDRESS))

\* RedeemDelegation: delegations, then myDelegations
myDelegations ==
  LET stored == SelectSeq(getDelegations,
                  LAMBDA d : d.meta.status = "signed" /\ d.meta.chainId = chainId)
  IN  SelectSeq(stored,
        LAMBDA d : toLowerCase(d.delegation.delegate) = toLowerCase(SAFE_ADDRESS))

\* the swap half of canExecute
SwapFormOk ==
  /\ swapForm.destinationToken # <<>> /\ isAddress(swapForm.destinationToken)
  /\ swapForm.sourceAmount # <<>> /\ Positive(swapForm.sourceAmount)

\* canExecute() of the page that is open
canExecute ==
  /\ Loaded # Null
  /\ page = "standalone" =>
       /\ isConnected
       /\ address # Null
       /\ toLowerCase(Loaded[1].delegation.delegate) = toLowerCase(address[1])
  /\ IF isSwapIntent THEN SwapFormOk
     ELSE /\ form.amount # <<>> /\ form.recipient # <<>>
          /\ isAddress(form.recipient)
          /\ Positive(form.amount)

\* one entry of the chain handed to swapByDelegation
ChainEntry(d) ==
  [ delegate |-> d.delegate, delegator |-> d.delegator, authority |-> d.authority,
    caveats |-> WithArgs(d.caveats), salt |-> BigInt(d.salt), signature |-> d.signature ]

\* the chain with the original delegation first
delegationChain_RootFirst(signedRedelegation, originalDelegation) ==
  << ChainEntry(originalDelegation), ChainEntry(signedRedelegation) >>

delegationChain(signedRedelegation, originalDelegation) ==
  << ChainEntry(signedRedelegation), ChainEntry(originalDelegation) >>

\* the redelegation to the adapter
Redelegation(chain, delegator, originalDelegation, seed) ==
  LET addrs == getAddresses(chain)
      originalDelegationHash ==
        computeDelegationHash(
          DelegationStruct(originalDelegation.delegate, originalDelegation.delegator,
                           originalDelegation.authority, originalDelegation.caveats,
                           originalDelegation.salt, EmptyHex))
  IN  DelegationStruct(addrs.delegationMetaSwapAdapter, delegator, originalDelegationHash,
                       << >>, generateSalt(seed), EmptyHex)

\* the direct redemption payload: the delegation with args on its caveats
RedeemDelegationOf(stored) ==
  [stored.delegation EXCEPT !.caveats = WithArgs(stored.delegation.caveats)]

-----------------------------------------------------------------------------
(* The redeem pages: what the user does *)

\* the success view has replaced the page
SuccessView == executed /\ txHash # Null

\* the steps of the page are rendered and nothing is waiting for the wallet:
\* while a signature or a transaction is asked for, the user answers the
\* prompt before touching the page again
StepsShown ==
  /\ page \in {"redeem", "standalone"}
  /\ ~SuccessView
  /\ ~executing
  /\ page = "standalone" => isConnected
  /\ page = "redeem" => Len(myDelegations) > 0

\* StandaloneRedeem: the wallet connects
connect ==
  /\ page = "standalone"
  /\ ~SuccessView
  /\ ~executing
  /\ ~isConnected
  /\ \E a \in {ALICE, BOB} : address' = Some(a)
  /\ isConnected' = TRUE
  /\ UNCHANGED <<pureVars, wizardVars, withdrawVars, adminVars, page, chainId, storage, error, createVars, redeemVars, outsideVars>>

disconnect ==
  /\ page = "standalone"
  /\ ~SuccessView
  /\ ~executing
  /\ isConnected
  /\ isConnected' = FALSE
  /\ address' = Null
  /\ UNCHANGED <<pureVars, wizardVars, withdrawVars, adminVars, page, chainId, storage, error, createVars, redeemVars, outsideVars>>

\* RedeemDelegation: a delegation of the list is clicked
selectDelegation ==
  /\ page = "redeem"
  /\ StepsShown
  /\ \E i \in 1..Len(myDelegations) :
       LET delegation == myDelegations[i]
       IN  /\ selectedDelegation' = Some(delegation)
           /\ form' = [form EXCEPT
                 !.tokenAddress = delegation.meta.tokenAddress,
                 !.tokenDecimals = IF delegation.meta.scopeType = "erc20SpendingLimit"
                                     THEN Some(18) ELSE Undefined]
  /\ swapQuotes' = Null
  /\ selectedQuote' = Null
  /\ UNCHANGED <<pureVars, wizardVars, withdrawVars, adminVars, page, walletVars, storage, error, createVars, parsedDelegation,
                 swapForm, fetchingQuotes, executing, executed, txHash, fetchCall, execCall,
                 outsideVars>>

\* StandaloneRedeem: handleDelegationJsonChange with parseDelegationJson. The
\* text is "{}" when it parses to a delegation (which one is what
\* parsedDelegation holds), "{" when it is not JSON or not a delegation
handleDelegationJsonChange ==
  /\ page = "standalone"
  /\ StepsShown
  /\ \/ \E parsed \in PastedRecords :
          /\ form' = [form EXCEPT !.delegationJson = <<"{", "}">>]
          /\ parsedDelegation' = Some(parsed)
          /\ error' = Null
     \/ /\ form' = [form EXCEPT !.delegationJson = <<"{">>]
        /\ parsedDelegation' = Null
        /\ error' = Some("Invalid delegation format")
     \/ /\ form' = [form EXCEPT !.delegationJson = <<>>]
        /\ parsedDelegation' = Null
        /\ error' = Null
  /\ UNCHANGED <<pureVars, wizardVars, withdrawVars, adminVars, page, walletVars, storage, createVars, selectedDelegation, swapForm,
                 swapQuotes, selectedQuote, fetchingQuotes, executing, executed, txHash,
                 fetchCall, execCall, outsideVars>>

\* what is typed into an amount field of the redeem pages
FormAmounts == {<<>>, <<"1">>}

\* the amount or the recipient of the transfer is typed
setForm ==
  /\ StepsShown
  /\ Loaded # Null
  /\ ~isSwapIntent
  /\ \/ \E v \in FormAmounts : form' = [form EXCEPT !.amount = v]
     \/ \E v \in {<<>>, BOB} : form' = [form EXCEPT !.recipient = v]
  /\ form' # form
  /\ UNCHANGED <<pureVars, wizardVars, withdrawVars, adminVars, page, walletVars, storage, error, createVars, selectedDelegation,
                 parsedDelegation, swapForm, swapQuotes, selectedQuote, fetchingQuotes,
                 executing, executed, txHash, fetchCall, execCall, outsideVars>>

\* the source amount or the destination token of the swap is typed
setSwapForm ==
  /\ StepsShown
  /\ isSwapIntent
  /\ \/ \E v \in FormAmounts : swapForm' = [swapForm EXCEPT !.sourceAmount = v]
     \/ \E v \in {<<>>, WETH, OSO} : swapForm' = [swapForm EXCEPT !.destinationToken = v]
  /\ swapForm' # swapForm
  /\ UNCHANGED <<pureVars, wizardVars, withdrawVars, adminVars, page, walletVars, storage, error, createVars, selectedDelegation,
                 parsedDelegation, form, swapQuotes, selectedQuote, fetchingQuotes,
                 executing, executed, txHash, fetchCall, execCall, outsideVars>>

\* one of the quotes listed is clicked
setSelectedQuote ==
  /\ StepsShown
  /\ isSwapIntent
  /\ swapQuotes # Null
  /\ \E i \in 1..Len(swapQuotes[1]) : selectedQuote' = Some(swapQuotes[1][i])
  /\ selectedQuote' # selectedQuote
  /\ UNCHANGED <<pureVars, wizardVars, withdrawVars, adminVars, page, walletVars, storage, error, createVars, selectedDelegation,
                 parsedDelegation, form, swapForm, swapQuotes, fetchingQuotes,
                 executing, executed, txHash, fetchCall, execCall, outsideVars>>

\* resetForm, from the success view
resetForm ==
  /\ page \in {"redeem", "standalone"}
  /\ SuccessView
  /\ selectedDelegation' = Null
  /\ parsedDelegation' = Null
  /\ form' = EmptyForm
  /\ swapForm' = EmptySwapForm
  /\ swapQuotes' = Null
  /\ selectedQuote' = Null
  /\ executed' = FALSE
  /\ txHash' = Null
  /\ error' = Null
  /\ signRequest' = Null
  /\ sentTx' = Null
  /\ safeMessage' = NoSafeMessage
  /\ UNCHANGED <<pureVars, wizardVars, withdrawVars, adminVars, page, walletVars, storage, createVars, fetchingQuotes, executing,
                 fetchCall, execCall>>

-----------------------------------------------------------------------------
(* The redeem pages: fetchSwapQuotes *)

KNOWN_TOKENS_LIST ==
  << [address |-> USDC, decimals |-> 6], [address |-> OSO, decimals |-> 18],
     [address |-> WETH, decimals |-> 18] >>

\* the decimals of a known token, 18 otherwise.
\* RedeemDelegation: findKnownToken(addr)?.decimals || 18, compared in lower case;
\* StandaloneRedeem: KNOWN_TOKENS[addr.toLowerCase()] || KNOWN_TOKENS[addr],
\* a table keyed by the checksummed spellings
findKnownToken(addr) ==
  LET Found(i) == IF page = "standalone"
                    THEN KNOWN_TOKENS_LIST[i].address \in {toLowerCase(addr), addr}
                    ELSE toLowerCase(KNOWN_TOKENS_LIST[i].address) = toLowerCase(addr)
  IN  IF \E i \in 1..Len(KNOWN_TOKENS_LIST) : Found(i)
        THEN KNOWN_TOKENS_LIST[CHOOSE i \in 1..Len(KNOWN_TOKENS_LIST) : Found(i)].decimals
        ELSE 18

\* a trade of the response to a request, by aggregator k
SwapTrade(request, k) ==
  [ trade |-> [data |-> <<"0", "x", "d", k>>], sourceAmount |-> request.sourceAmount,
    sourceToken |-> request.sourceToken, destinationToken |-> request.destinationToken,
    aggregator |-> k ]

\* Get Swap Quotes is clicked; the handler runs up to `await fetch(url)`
fetchSwapQuotes_click ==
  /\ StepsShown
  /\ isSwapIntent
  /\ ~fetchingQuotes
  /\ SwapFormOk
  /\ error' = IF ~getAddressesOk(chainId) THEN Some("Unsupported chain")
              ELSE IF FindCaveat(Loaded[1].delegation.caveats,
                                 getAddresses(chainId).erc20PeriodTransferEnforcer) = << >>
                THEN Some("Could not find source token from delegation caveats")
              ELSE Null
  /\ swapQuotes' = Null
  /\ selectedQuote' = Null
  /\ IF error' # Null
       THEN UNCHANGED <<fetchingQuotes, fetchCall>>
       ELSE LET addrs == getAddresses(chainId)
                erc20PeriodCaveat == FindCaveat(Loaded[1].delegation.caveats,
                                                addrs.erc20PeriodTransferEnforcer)[1]
                sourceTokenAddress == SourceTokenOf(erc20PeriodCaveat)
                decimals == findKnownToken(sourceTokenAddress)
                sourceAmount == parseUnits(swapForm.sourceAmount, decimals)
            IN  /\ fetchingQuotes' = TRUE
                /\ fetchCall' = [pc |-> "fetch",
                                 request |-> [chainId |-> chainId,
                                             sourceAmount |-> sourceAmount,
                                             sourceToken |-> sourceTokenAddress,
                                             destinationToken |-> swapForm.destinationToken]]
  /\ UNCHANGED <<pureVars, wizardVars, withdrawVars, adminVars, page, walletVars, storage, createVars, selectedDelegation,
                 parsedDelegation, form, swapForm, executing, executed, txHash, execCall,
                 outsideVars>>

\* the API answers with trades
fetchSwapQuotes_trades ==
  /\ fetchCall.pc = "fetch"
  /\ LET trades == << SwapTrade(fetchCall.request, "1"), SwapTrade(fetchCall.request, "2") >>
     IN  /\ swapQuotes' = Some(trades)
         /\ selectedQuote' = Some(trades[1])
  /\ fetchingQuotes' = FALSE
  /\ fetchCall' = Idle
  /\ UNCHANGED <<pureVars, wizardVars, withdrawVars, adminVars, page, walletVars, storage, error, createVars, selectedDelegation,
                 parsedDelegation, form, swapForm, executing, executed, txHash, execCall,
                 outsideVars>>

\* the request fails, the API answers with an error or with no trades
fetchSwapQuotes_failed ==
  /\ fetchCall.pc = "fetch"
  /\ \E message \in {"MetaSwap API error", "No swap quotes available for this pair"} :
       error' = Some(message)
  /\ fetchingQuotes' = FALSE
  /\ fetchCall' = Idle
  /\ UNCHANGED <<pureVars, wizardVars, withdrawVars, adminVars, page, walletVars, storage, createVars, selectedDelegation,
                 parsedDelegation, form, swapForm, swapQuotes, selectedQuote, executing,
                 executed, txHash, execCall, outsideVars>>

-----------------------------------------------------------------------------
(* The redeem pages: handleExecuteRedemption and handleExecuteSwapRedemption *)

\* the hash walletClient.sendTransaction returns
TX_HASH == <<"0", "x", "7", "c", "a", "b">>

\* callData '0x'
NoCallData == [fn |-> "", to |-> <<>>, amount |-> <<>>]

\* createExecution
Execution(target, value, callData) == [target |-> target, value |-> value, callData |-> callData]

\* a transaction: who sends it, where to, the function encoded and its
\* arguments, and the record the handler worked on
Tx(from, to, fn, permissions, apiData, expiration, execution, record) ==
  [ from |-> from, to |-> to, fn |-> fn, delegations |-> permissions, apiData |-> apiData,
    expiration |-> expiration, execution |-> execution, record |-> record ]

\* who redeems: the Safe, or the wallet connected
Redeemer == IF page = "standalone" THEN address[1] ELSE SAFE_ADDRESS

\* redeemDelegations([[delegation]], [SingleDefault], [[execution]])
RedeemTx(from, chain, record, execution) ==
  Tx(from, getAddresses(chain).delegationManager, "redeemDelegations", <<RedeemDelegationOf(record)>>, <<>>,
     Undefined, execution, record)

\* swapByDelegation({apiData, expiration, signature '0x'}, delegationChain, false)
SwapTx(from, chain, record, signedRedelegation, quote, now) ==
  Tx(from, getAddresses(chain).delegationMetaSwapAdapter, "swapByDelegation",
     delegationChain(signedRedelegation, record.delegation), quote.trade.data,
     Some(now + 600), Execution(<<>>, <<>>, NoCallData), record)

\* the Execute button is enabled and the handler gets past its early returns
ExecuteEnabled ==
  /\ StepsShown
  /\ Loaded # Null
  /\ ~executing
  /\ IF isSwapIntent
       THEN /\ selectedQuote # Null
            /\ page = "redeem" => canExecute
            /\ page = "standalone" => address # Null
       ELSE canExecute

\* the handler ends in its catch block before its first await
ExecuteThrows(message) ==
  /\ error' = Some(message)
  /\ UNCHANGED <<executing, execCall, outsideVars>>

\* Execute is clicked on a swap intent: handleExecuteSwapRedemption up to the
\* request for a signature
handleExecuteSwapRedemption_click ==
  /\ ExecuteEnabled
  /\ isSwapIntent
  /\ IF (page = "redeem" /\ chainId \notin chains) \/ ~getAddressesOk(chainId)
       THEN ExecuteThrows("Unsupported chain")
       ELSE \E seed \in SaltSeeds :
              LET originalDelegation == Loaded[1].delegation
                  redelegation == Redelegation(chainId, Redeemer, originalDelegation, seed)
                  typedData == buildDelegationTypedData(redelegation, chainId)
                  asked == IF page = "standalone"
                             THEN [typedData EXCEPT !.message.salt = BigInt(@)]
                             ELSE typedData
              IN  /\ error' = Null
                  /\ executing' = TRUE
                  /\ execCall' = [pc |-> "sign", record |-> Loaded[1],
                                  quote |-> selectedQuote[1], account |-> Redeemer,
                                  redelegation |-> redelegation]
                  /\ signRequest' = Some(SignRequest(Redeemer, redelegation, asked,
                                                     Some(originalDelegation)))
                  /\ safeMessage' = IF page = "redeem"
                                      THEN [pending |-> TRUE, confirmations |-> 0]
                                      ELSE safeMessage
                  /\ UNCHANGED sentTx
  /\ UNCHANGED <<pureVars, wizardVars, withdrawVars, adminVars, page, walletVars, storage, createVars, selectedDelegation,
                 parsedDelegation, form, swapForm, swapQuotes, selectedQuote, fetchingQuotes,
                 executed, txHash, fetchCall>>

\* the redelegation is signed: the chain and the calldata are built and the
\* transaction is handed to the wallet or the Safe
handleExecuteSwapRedemption_signed ==
  /\ execCall.pc = "sign"
  /\ \E result \in (IF page = "redeem" THEN SignResults(safeMessage.confirmations)
                    ELSE {SignResult(SIGNATURE \o SubSeq(toLowerCase(execCall.account), 3, 6),
                                 <<>>, <<>>)}),
        now \in Clock :
       LET signature == IF page = "redeem" THEN SignatureOf(result) ELSE result.signature
           signedRedelegation == [execCall.redelegation EXCEPT !.signature = signature]
       IN  /\ execCall' = [pc |-> "send",
                           tx |-> SwapTx(execCall.account, chainId, execCall.record,
                                         signedRedelegation, execCall.quote, now)]
           /\ signRequest' = Some([signRequest[1] EXCEPT !.result = Some(result)])
  /\ UNCHANGED <<pureVars, wizardVars, withdrawVars, adminVars, page, walletVars, storage, error, createVars, selectedDelegation,
                 parsedDelegation, form, swapForm, swapQuotes, selectedQuote, fetchingQuotes,
                 executing, executed, txHash, fetchCall, safeMessage, sentTx>>


\* the ERC-20 execution of a direct redemption: the token is called with
\* encodeFunctionData(erc20Abi, 'transfer', [recipient, amount])
Erc20Execution(record, amount, recipient, decimals) ==
  Execution(record.meta.tokenAddress[1], HexNum(0),
            [fn |-> "transfer", to |-> recipient, amount |-> parseUnits(amount, decimals)])

\* Execute is clicked on a spending limit: handleExecuteRedemption up to its
\* first await
handleExecuteRedemption_click ==
  /\ ExecuteEnabled
  /\ ~isSwapIntent
  /\ LET record == Loaded[1]
         isEthTransfer == record.meta.scopeType = "ethSpendingLimit"
     IN  IF page = "standalone" /\ ~getAddressesOk(chainId)
           THEN ExecuteThrows("Unsupported chain")
         ELSE IF ~isEthTransfer /\ record.meta.tokenAddress = Undefined
           THEN ExecuteThrows("Token address not found in delegation")
         ELSE IF page = "redeem" /\ ~getAddressesOk(chainId)
           THEN ExecuteThrows("Unsupported chain")
         ELSE /\ error' = Null
              /\ executing' = TRUE
              /\ execCall' =
                   IF isEthTransfer
                     THEN [pc |-> "send",
                           tx |-> RedeemTx(Redeemer, chainId, record,
                                    Execution(form.recipient, parseEther(form.amount),
                                              NoCallData))]
                   ELSE IF page = "standalone"
                     THEN [pc |-> "decimals", record |-> record, account |-> Redeemer,
                           amount |-> form.amount, recipient |-> form.recipient]
                   ELSE [pc |-> "send",
                         tx |-> RedeemTx(Redeemer, chainId, record,
                                  Erc20Execution(record, form.amount, form.recipient,
                                    IF Truthy(form.tokenDecimals) THEN form.tokenDecimals[1]
                                    ELSE 18))]
              /\ UNCHANGED outsideVars
  /\ UNCHANGED <<pureVars, wizardVars, withdrawVars, adminVars, page, walletVars, storage, createVars, selectedDelegation,
                 parsedDelegation, form, swapForm, swapQuotes, selectedQuote, fetchingQuotes,
                 executed, txHash, fetchCall>>

\* StandaloneRedeem: `decimals()` answers, or fails and 18 is used
handleExecuteRedemption_decimals ==
  /\ execCall.pc = "decimals"
  /\ \E decimals \in {6, 18} :
       execCall' = [pc |-> "send",
                    tx |-> RedeemTx(execCall.account, chainId, execCall.record,
                             Erc20Execution(execCall.record, execCall.amount,
                                            execCall.recipient, decimals))]
  /\ UNCHANGED <<pureVars, wizardVars, withdrawVars, adminVars, page, walletVars, storage, error, createVars, selectedDelegation,
                 parsedDelegation, form, swapForm, swapQuotes, selectedQuote, fetchingQuotes,
                 executing, executed, txHash, fetchCall, outsideVars>>

\* the wallet or the Safe takes the transaction: the handler ends
handleExecute_sent ==
  /\ execCall.pc = "send"
  /\ sentTx' = Some(execCall.tx)
  /\ txHash' = Some(IF page = "redeem" THEN SAFE_TX_HASH ELSE TX_HASH)
  /\ executed' = TRUE
  /\ executing' = FALSE
  /\ execCall' = Idle
  /\ UNCHANGED <<pureVars, wizardVars, withdrawVars, adminVars, page, walletVars, storage, error, createVars, selectedDelegation,
                 parsedDelegation, form, swapForm, swapQuotes, selectedQuote, fetchingQuotes,
                 fetchCall, safeMessage, signRequest>>

\* the signature or the transaction is refused: catch and finally
handleExecute_rejected ==
  /\ execCall.pc \in {"sign", "send"}
  /\ execCall.pc = "sign" /\ page = "redeem" => safeMessage.confirmations = 0
  /\ error' = Some("User rejected the request")
  /\ executing' = FALSE
  /\ execCall' = Idle
  /\ signRequest' = Null
  /\ safeMessage' = NoSafeMessage
  /\ UNCHANGED <<pureVars, wizardVars, withdrawVars, adminVars, page, walletVars, storage, createVars, selectedDelegation,
                 parsedDelegation, form, swapForm, swapQuotes, selectedQuote, fetchingQuotes,
                 executed, txHash, fetchCall, sentTx>>

RedeemNext ==
  \/ connect
  \/ disconnect
  \/ selectDelegation
  \/ handleDelegationJsonChange
  \/ setForm
  \/ setSwapForm
  \/ setSelectedQuote
  \/ resetForm
  \/ fetchSwapQuotes_click
  \/ fetchSwapQuotes_trades
  \/ fetchSwapQuotes_failed
  \/ handleExecuteSwapRedemption_click
  \/ handleExecuteSwapRedemption_signed
  \/ handleExecuteRedemption_click
  \/ handleExecuteRedemption_decimals
  \/ handleExecute_sent
  \/ handleExecute_rejected

-----------------------------------------------------------------------------
(* lib/storage.ts: exportDelegationsJson and importDelegationsJson.
   A JSON text is modelled by what JSON.parse makes of it: `json` tells
   whether it parses, `fields` maps the keys of the top-level object to
   tagged values: a number, a string, an array of objects or an object. *)

Js(t, v) == [t |-> t, v |-> v]

\* JSON.stringify of one record: keys whose value is undefined are left out
RecordJson(d) ==
  LET optional == {"period", "tokenAddress", "expiryDate"}
      present == { k \in DOMAIN d.meta : ~(k \in optional /\ d.meta[k] = Undefined) }
  IN  [ delegation |-> Js("obj", d.delegation),
        meta |-> Js("obj", [ k \in present |->
                                  IF k \in optional THEN d.meta[k][1] ELSE d.meta[k] ]) ]

\* a parsed object read as a StoredDelegation: a key that is missing reads
\* undefined
RecordOf(fields) ==
  LET optional == {"period", "tokenAddress", "expiryDate"}
      keys == {"label", "scopeType", "createdAt", "chainId", "safeAddress", "moduleAddress",
               "status", "delegationHash", "amount"} \cup optional
      meta == fields.meta.v
  IN  StoredDelegation(fields.delegation.v,
        [ k \in keys |->
            IF k \notin DOMAIN meta THEN Undefined
            ELSE IF k \in optional THEN Some(meta[k]) ELSE meta[k] ])

\* new Date(seconds * 1000).toISOString() is not computed: exportedAt holds the seconds
exportDelegationsJson(list, now) ==
  [ json |-> TRUE,
    fields |-> [ version |-> Js("str", "1.0"), exportedAt |-> Js("num", now),
                 delegations |-> Js("arr", [ i \in 1..Len(list) |-> RecordJson(list[i]) ]) ] ]

\* `parsed.key` in a condition: the key is there and its value is not 0 or ''
JsTruthy(fields, key) ==
  /\ key \in DOMAIN fields
  /\ fields[key].t = "num" => fields[key].v # 0
  /\ fields[key].t = "str" => fields[key].v # ""

\* what importDelegationsJson returns or throws: a list of records when the
\* value returned is an array of records, the value itself otherwise
importDelegationsJson(text) ==
  IF ~text.json THEN [throws |-> Some("Unexpected token"), value |-> Null]
  ELSE IF JsTruthy(text.fields, "version") /\ JsTruthy(text.fields, "delegations")
    THEN [ throws |-> Null,
           value |-> LET v == text.fields.delegations
                     IN  IF v.t = "arr"
                           THEN Some(Js("arr", [ i \in 1..Len(v.v) |-> RecordOf(v.v[i]) ]))
                           ELSE Some(v) ]
  ELSE IF JsTruthy(text.fields, "delegation") /\ JsTruthy(text.fields, "meta")
    THEN [ throws |-> Null, value |-> Some(Js("arr", << RecordOf(text.fields) >>)) ]
  ELSE [ throws |-> Some("Invalid delegation JSON format"), value |-> Null ]

-----------------------------------------------------------------------------
(* The Import page and the Delegations page of the Safe app *)

\* records of this Safe and of another one; OlderCopy has the hash of
\* ManagedRecord("eth") under another status and label
ManagedRecord(kind) ==
  CASE kind = "eth" -> [EthRecord(ALICE, BaseSepolia) EXCEPT !.meta.safeAddress = SAFE_ADDRESS]
    [] kind = "older" -> [EthRecord(ALICE, BaseSepolia) EXCEPT !.meta.safeAddress = SAFE_ADDRESS,
                                                              !.meta.status = "pending",
                                                              !.meta.label = <<"2">>]
    [] kind = "erc20" -> [Erc20Record(ALICE, BaseSepolia) EXCEPT
                            !.meta.safeAddress = toLowerCase(SAFE_ADDRESS)]
    [] kind = "other" -> SwapRecord(BOB, BaseSepolia)

\* the files dropped on the Import page: exported files, a single record,
\* objects of neither format, and text that is not JSON
JsonTexts ==
  LET eth == ManagedRecord("eth")
      older == ManagedRecord("older")
      erc20 == ManagedRecord("erc20")
      other == ManagedRecord("other")
  IN  { exportDelegationsJson(<<eth, erc20, other>>, Epoch0),
        exportDelegationsJson(<< >>, Epoch0),
        [json |-> TRUE, fields |-> RecordJson(older)],
        [json |-> TRUE, fields |-> [version |-> Js("str", "1.0")]],
        [json |-> TRUE, fields |-> [version |-> Js("str", "1.0"), delegations |-> Js("num", 5)]],
        [json |-> TRUE, fields |-> [version |-> Js("str", "1.0"),
                                    delegations |-> Js("arr", <<RecordJson(erc20)>>),
                                    delegation |-> RecordJson(eth).delegation,
                                    meta |-> RecordJson(eth).meta]],
        [json |-> FALSE, fields |-> << >>] }

\* ImportDelegation: a file is dropped or chosen: handleFile sets the text and
\* calls parseInput. A value that is not an array makes the preview throw
\* while it renders (`imported.map`), which takes the whole app down
handleFile ==
  /\ page = "import"
  /\ \E text \in JsonTexts :
       LET result == importDelegationsJson(text)
       IN  /\ jsonInput' = Some(text)
           /\ error' = result.throws
           /\ imported' = result.value
           /\ page' = IF result.value # Null /\ result.value[1].t # "arr"
                        THEN "crashed" ELSE page
  /\ saved' = FALSE
  /\ UNCHANGED <<pureVars, wizardVars, withdrawVars, delegations, revoking, revokeCall, moduleStatus,
                 moduleAddress, installing, checkCall, installCall, moduleEnabled,
                 walletVars, storage, createVars, redeemVars, outsideVars>>

\* imported.forEach(saveDelegation)
RECURSIVE SaveAll(_, _)
SaveAll(existing, records) ==
  IF records = << >> THEN existing
  ELSE SaveAll(saveDelegation(existing, Head(records)), Tail(records))

\* ImportDelegation: Save to Local Storage is clicked
handleSave ==
  /\ page = "import"
  /\ imported # Null
  /\ ~saved
  /\ storage' = SaveAll(getDelegations, imported[1].v)
  /\ saved' = TRUE
  /\ UNCHANGED <<pureVars, wizardVars, withdrawVars, jsonInput, imported, delegations, revoking, revokeCall,
                 moduleStatus, moduleAddress, installing, checkCall, installCall,
                 moduleEnabled, page, walletVars, error, createVars, redeemVars, outsideVars>>

\* Delegations: loadDelegations
loadDelegations(stored) ==
  SelectSeq(stored, LAMBDA d : toLowerCase(d.meta.safeAddress) = toLowerCase(SAFE_ADDRESS))

\* the transaction handleRevoke builds
RevokeTx(chain, d) ==
  Tx(SAFE_ADDRESS, getAddresses(chain).delegationManager, "disableDelegation",
     <<ChainEntry(d.delegation)>>, <<>>, Undefined, Execution(<<>>, <<>>, NoCallData), d)

\* Delegations: Revoke is clicked on a card; the handler runs up to
\* `await sdk.txs.send`, or ends in its catch block on an unsupported chain
handleRevoke_click ==
  /\ page = "delegations"
  /\ revokeCall.pc # "send"
  /\ \E i \in 1..Len(delegations) :
       LET d == delegations[i]
       IN  /\ d.meta.status = "signed"
           /\ revoking # Some(d.meta.delegationHash)
           /\ IF getAddressesOk(chainId)
                THEN /\ revoking' = Some(d.meta.delegationHash)
                     /\ revokeCall' = [pc |-> "send", d |-> d, tx |-> RevokeTx(chainId, d)]
                ELSE /\ revoking' = Null
                     /\ revokeCall' = [pc |-> "failed", d |-> d]
  /\ UNCHANGED <<pureVars, wizardVars, withdrawVars, jsonInput, imported, saved, delegations, moduleStatus,
                 moduleAddress, installing, checkCall, installCall, moduleEnabled, page,
                 walletVars, storage, error, createVars, redeemVars, outsideVars>>

\* the Safe takes the transaction: the status is updated and the list reloaded
handleRevoke_sent ==
  /\ revokeCall.pc = "send"
  /\ storage' = updateDelegationStatus(getDelegations, revokeCall.d.meta.delegationHash,
                                       "revoked")
  /\ delegations' = loadDelegations(storage')
  /\ sentTx' = Some(revokeCall.tx)
  /\ revoking' = Null
  /\ revokeCall' = [pc |-> "done", d |-> revokeCall.d]
  /\ UNCHANGED <<pureVars, wizardVars, withdrawVars, jsonInput, imported, saved, moduleStatus, moduleAddress,
                 installing, checkCall, installCall, moduleEnabled, page, walletVars, error,
                 createVars, redeemVars, safeMessage, signRequest>>

\* a refusal that marks the record all the same
handleRevoke_rejected_Marks ==
  /\ revokeCall.pc = "send"
  /\ revoking' = Null
  /\ revokeCall' = [pc |-> "failed", d |-> revokeCall.d]
  /\ storage' = updateDelegationStatus(getDelegations, revokeCall.d.meta.delegationHash,
                                       "revoked")
  /\ UNCHANGED <<pureVars, wizardVars, withdrawVars, jsonInput, imported, saved, delegations, moduleStatus,
                 moduleAddress, installing, checkCall, installCall, moduleEnabled, page,
                 walletVars, error, createVars, redeemVars, outsideVars>>

\* the transaction is refused: catch and finally
handleRevoke_rejected ==
  /\ revokeCall.pc = "send"
  /\ revoking' = Null
  /\ revokeCall' = [pc |-> "failed", d |-> revokeCall.d]
  /\ UNCHANGED <<pureVars, wizardVars, withdrawVars, jsonInput, imported, saved, delegations, moduleStatus,
                 moduleAddress, installing, checkCall, installCall, moduleEnabled, page,
                 walletVars, storage, error, createVars, redeemVars, outsideVars>>

\* Delegations: the cross of a card is clicked; the list shown is not reloaded
removeClick ==
  /\ page = "delegations"
  /\ revokeCall.pc # "send"
  /\ \E i \in 1..Len(delegations) :
       storage' = removeDelegation(getDelegations, delegations[i].meta.delegationHash)
  /\ storage' # storage
  /\ UNCHANGED <<pureVars, wizardVars, withdrawVars, jsonInput, imported, saved, delegations, revoking, revokeCall, moduleStatus,
                 moduleAddress, installing, checkCall, installCall, moduleEnabled, page,
                 walletVars, error, createVars, redeemVars, outsideVars>>

-----------------------------------------------------------------------------
(* lib/module.ts: buildModuleInstallTxs, and the Home page *)

\* DeleGatorModuleFactory.predictAddress(safe, salt): a CREATE2 address, one
\* per pair of arguments
predictAddress(safeAddress, salt) ==
  IF safeAddress = SAFE_ADDRESS /\ salt = DEFAULT_SALT THEN MODULE_ADDRESS
  ELSE keccak256(encodePacked(<<PackAddress(safeAddress), Digits(salt)>>))

\* the batch with the two calls exchanged
buildModuleInstallTxs_EnableFirst(safeAddress, chain, predictedModuleAddress) ==
  << [to |-> safeAddress, value |-> "0", fn |-> "enableModule",
      args |-> <<predictedModuleAddress>>],
     [to |-> getAddresses(chain).delegatorModuleFactory, value |-> "0", fn |-> "deploy",
      args |-> <<safeAddress, DEFAULT_SALT>>] >>

buildModuleInstallTxs(safeAddress, chain, predictedModuleAddress) ==
  << [to |-> getAddresses(chain).delegatorModuleFactory, value |-> "0", fn |-> "deploy",
      args |-> <<safeAddress, DEFAULT_SALT>>],
     [to |-> safeAddress, value |-> "0", fn |-> "enableModule",
      args |-> <<predictedModuleAddress>>] >>

\* Home after construction and the first run of its effect: checkModuleStatus
\* up to its first await, or to its early return on a chain without RPC entry
HomeMounted(chain) ==
  IF chain \in chains
    THEN [moduleStatus |-> "loading", error |-> Null, checkCall |-> [pc |-> "predictAddress"]]
    ELSE [moduleStatus |-> "error", error |-> Some("Unsupported chain"), checkCall |-> Idle]

\* predictAddress answers
checkModuleStatus_predicted ==
  /\ checkCall.pc = "predictAddress"
  /\ getAddresses(chainId).delegatorModuleFactory # FACTORY_ZERO
  /\ moduleAddress' = Some(predictAddress(SAFE_ADDRESS, DEFAULT_SALT))
  /\ checkCall' = [pc |-> "isModuleEnabled"]
  /\ UNCHANGED <<pureVars, wizardVars, withdrawVars, jsonInput, imported, saved, delegations, revoking, revokeCall,
                 moduleStatus, installing, installCall, moduleEnabled, page, walletVars,
                 storage, error, createVars, redeemVars, outsideVars>>

\* isModuleEnabled answers; the reads of the owners and the threshold that
\* follow cannot fail the check
checkModuleStatus_enabled ==
  /\ checkCall.pc = "isModuleEnabled"
  /\ moduleStatus' = IF moduleEnabled THEN "installed" ELSE "not-installed"
  /\ checkCall' = [pc |-> "read", isEnabled |-> moduleEnabled]
  /\ UNCHANGED <<pureVars, wizardVars, withdrawVars, jsonInput, imported, saved, delegations, revoking, revokeCall,
                 moduleAddress, installing, installCall, moduleEnabled, page, walletVars,
                 storage, error, createVars, redeemVars, outsideVars>>

\* a read fails: the catch block
checkModuleStatus_failed ==
  /\ checkCall.pc \in {"predictAddress", "isModuleEnabled"}
  /\ moduleStatus' = "error"
  /\ error' = Some(IF getAddresses(chainId).delegatorModuleFactory = FACTORY_ZERO
                     THEN "Factory contract not yet deployed on this chain"
                     ELSE "Failed to check module status")
  /\ checkCall' = Idle
  /\ UNCHANGED <<pureVars, wizardVars, withdrawVars, jsonInput, imported, saved, delegations, revoking, revokeCall,
                 moduleAddress, installing, installCall, moduleEnabled, page, walletVars,
                 storage, createVars, redeemVars, outsideVars>>

\* Install Gator Module is clicked: installModule up to `await sdk.txs.send`
installModule_click ==
  /\ page = "home"
  /\ moduleStatus = "not-installed"
  /\ ~installing
  /\ moduleAddress # Null
  /\ installing' = TRUE
  /\ error' = Null
  /\ installCall' = [pc |-> "send",
                     txs |-> buildModuleInstallTxs(SAFE_ADDRESS, chainId, moduleAddress[1])]
  /\ UNCHANGED <<pureVars, wizardVars, withdrawVars, jsonInput, imported, saved, delegations, revoking, revokeCall,
                 moduleStatus, moduleAddress, checkCall, moduleEnabled, page, walletVars,
                 storage, createVars, redeemVars, outsideVars>>

\* the Safe takes the batch as a proposal
installModule_sent ==
  /\ installCall.pc = "send"
  /\ sentTx' = Some(installCall.txs)
  /\ moduleStatus' = "installed"
  /\ installing' = FALSE
  /\ installCall' = Idle
  /\ UNCHANGED <<pureVars, wizardVars, withdrawVars, jsonInput, imported, saved, delegations, revoking, revokeCall,
                 moduleAddress, checkCall, moduleEnabled, page, walletVars, storage, error,
                 createVars, redeemVars, safeMessage, signRequest>>

\* the proposal is refused: catch and finally
installModule_rejected ==
  /\ installCall.pc = "send"
  /\ error' = Some("User rejected the request")
  /\ installing' = FALSE
  /\ installCall' = Idle
  /\ UNCHANGED <<pureVars, wizardVars, withdrawVars, jsonInput, imported, saved, delegations, revoking, revokeCall,
                 moduleStatus, moduleAddress, checkCall, moduleEnabled, page, walletVars,
                 storage, createVars, redeemVars, outsideVars>>

\* the owners approve and execute the batch that was proposed: the module is
\* deployed and enabled on the Safe
SafeOwnersExecute ==
  /\ page = "home"
  /\ sentTx # Null
  /\ ~moduleEnabled
  /\ moduleEnabled' = TRUE
  /\ UNCHANGED <<pureVars, wizardVars, withdrawVars, jsonInput, imported, saved, delegations, revoking, revokeCall,
                 moduleStatus, moduleAddress, installing, checkCall, installCall, page,
                 walletVars, storage, error, createVars, redeemVars, outsideVars>>

-----------------------------------------------------------------------------
(* App: the navigation between Home, Import and Delegations *)

AdminPages == {"home", "import", "delegations"}

\* a navigation button is clicked: the page shown is unmounted and the target
\* is constructed; its effect, if it has one, runs
setPage ==
  /\ page \in AdminPages
  /\ revokeCall.pc # "send"
  /\ installCall.pc # "send"
  /\ \E target \in AdminPages \ {page} :
       /\ page' = target
       /\ moduleStatus' = IF target = "home" THEN HomeMounted(chainId).moduleStatus ELSE "loading"
       /\ error' = IF target = "home" THEN HomeMounted(chainId).error ELSE Null
       /\ checkCall' = IF target = "home" THEN HomeMounted(chainId).checkCall ELSE Idle
       /\ delegations' = IF target = "delegations" THEN loadDelegations(getDelegations) ELSE << >>
  /\ moduleAddress' = Null
  /\ installing' = FALSE
  /\ installCall' = Idle
  /\ jsonInput' = Null
  /\ imported' = Null
  /\ saved' = FALSE
  /\ revoking' = Null
  /\ revokeCall' = Idle
  /\ sentTx' = Null
  /\ UNCHANGED <<pureVars, wizardVars, withdrawVars, moduleEnabled, walletVars, storage, createVars, redeemVars,
                 safeMessage, signRequest>>

\* the app is opened in a Safe whose storage is empty: Home is shown
AdminStart ==
  /\ pureIn = [ chainId |-> BaseSepolia, tokenAddress |-> USDC, amount |-> <<"1">>,
                decimals |-> 6, period |-> "daily", expiryTimestamp |-> Undefined,
                startClock |-> Epoch0, expiryClock |-> Epoch0 ]
  /\ pureOut = PureResult("none", <<>>, NoTypedData, <<>>, <<>>)
  /\ page = "home"
  /\ chainId \in {BaseMainnet, BaseSepolia, 1}
  /\ isConnected = FALSE
  /\ address = Null
  /\ storage = << >>
  /\ error = HomeMounted(chainId).error
  /\ CreateInit
  /\ RedeemInit
  /\ OutsideInit
  /\ jsonInput = Null
  /\ imported = Null
  /\ saved = FALSE
  /\ delegations = << >>
  /\ revoking = Null
  /\ revokeCall = Idle
  /\ moduleStatus = HomeMounted(chainId).moduleStatus
  /\ moduleAddress = Null
  /\ installing = FALSE
  /\ checkCall = HomeMounted(chainId).checkCall
  /\ installCall = Idle
  /\ moduleEnabled = FALSE
  /\ WizardInit
  /\ WithdrawInit

AdminNext ==
  \/ setPage
  \/ checkModuleStatus_predicted
  \/ checkModuleStatus_enabled
  \/ checkModuleStatus_failed
  \/ installModule_click
  \/ installModule_sent
  \/ installModule_rejected
  \/ SafeOwnersExecute
  \/ handleFile
  \/ handleSave
  \/ handleRevoke_click
  \/ handleRevoke_sent
  \/ handleRevoke_rejected
  \/ removeClick

SpecAdmin == AdminStart /\ [][AdminNext]_vars

-----------------------------------------------------------------------------
(* components/CreateDelegation: the steps of the wizard *)

\* how many grants a session of the wizard is followed through
MaxGrants == 1

reviewStep(category) == IF category = "spendingLimit" THEN 5 ELSE 4

\* canProceed() on step s with the fields f
canProceedStep(s, f) ==
  CASE s = 1 -> isAddress(f.delegate)
    [] s = 2 -> TRUE
    [] s = 3 ->
         IF f.category = "spendingLimit" THEN TRUE
         ELSE /\ f.sendAmount # <<>> /\ Positive(f.sendAmount)
              /\ f.receiveAmount # <<>> /\ Positive(f.receiveAmount)
              /\ f.sendType = "erc20" =>
                   isAddress(getTokenAddress(f.sendTokenOption, f.sendCustomAddress))
              /\ isAddress(getTokenAddress(f.receiveTokenOption, f.receiveCustomAddress))
    [] s = 4 ->
         IF f.category = "spendingLimit"
           THEN /\ f.amount # <<>> /\ Positive(f.amount)
                /\ f.permType = "erc20" =>
                     isAddress(getTokenAddress(f.tokenOption, f.customTokenAddress))
                /\ ~(f.expiryEnabled /\ f.expiryDate = "")
           ELSE TRUE
    [] OTHER -> TRUE

\* the steps are rendered: the signed view is not shown and no grant is in
\* progress
WizardShown ==
  /\ page = "create"
  /\ ~(signed /\ signedDelegation # Null)
  /\ grant = Idle

\* Next that skips a step
nextStep_Skips ==
  /\ WizardShown
  /\ step < reviewStep(wizardForm.category)
  /\ canProceedStep(step, wizardForm)
  /\ step' = step + 2
  /\ UNCHANGED <<pureVars, wizardForm, withdrawVars, adminVars, page, walletVars, storage, error,
                 createVars, redeemVars, outsideVars>>

\* Next is clicked
nextStep ==
  /\ WizardShown
  /\ step < reviewStep(wizardForm.category)
  /\ canProceedStep(step, wizardForm)
  /\ step' = (IF step + 1 < reviewStep(wizardForm.category)
                THEN step + 1 ELSE reviewStep(wizardForm.category))
  /\ UNCHANGED <<pureVars, wizardForm, withdrawVars, adminVars, page, walletVars, storage, error,
                 createVars, redeemVars, outsideVars>>

\* Back is clicked
backStep ==
  /\ WizardShown
  /\ step # 1
  /\ step' = (IF step - 1 > 1 THEN step - 1 ELSE 1)
  /\ UNCHANGED <<pureVars, wizardForm, withdrawVars, adminVars, page, walletVars, storage, error,
                 createVars, redeemVars, outsideVars>>

\* step 1: the delegate is typed
setDelegate ==
  /\ WizardShown
  /\ step = 1
  /\ \E v \in {<<>>, ALICE} : wizardForm' = [wizardForm EXCEPT !.delegate = v]
  /\ wizardForm' # wizardForm
  /\ UNCHANGED <<pureVars, step, withdrawVars, adminVars, page, walletVars, storage, error,
                 createVars, redeemVars, outsideVars>>

\* step 2: a category is clicked
setCategory ==
  /\ WizardShown
  /\ step = 2
  /\ \E v \in {"spendingLimit", "transferIntent"} :
       wizardForm' = [wizardForm EXCEPT !.category = v]
  /\ wizardForm' # wizardForm
  /\ UNCHANGED <<pureVars, step, withdrawVars, adminVars, page, walletVars, storage, error,
                 createVars, redeemVars, outsideVars>>

\* step 3 of a spending limit: an asset type is clicked
setPermType ==
  /\ WizardShown
  /\ step = 3
  /\ wizardForm.category = "spendingLimit"
  /\ \E v \in {"eth", "erc20"} : wizardForm' = [wizardForm EXCEPT !.permType = v]
  /\ wizardForm' # wizardForm
  /\ UNCHANGED <<pureVars, step, withdrawVars, adminVars, page, walletVars, storage, error,
                 createVars, redeemVars, outsideVars>>

\* step 4 of a spending limit: the amount is typed or the expiry is toggled
setSpendingLimit ==
  /\ WizardShown
  /\ step = 4
  /\ wizardForm.category = "spendingLimit"
  /\ \/ \E v \in {<<>>, <<"1">>} : wizardForm' = [wizardForm EXCEPT !.amount = v]
     \/ wizardForm' = [wizardForm EXCEPT !.expiryEnabled = ~@]
  /\ wizardForm' # wizardForm
  /\ UNCHANGED <<pureVars, step, withdrawVars, adminVars, page, walletVars, storage, error,
                 createVars, redeemVars, outsideVars>>

\* step 3 of a transfer intent: an amount is typed
setTransferIntent ==
  /\ WizardShown
  /\ step = 3
  /\ wizardForm.category = "transferIntent"
  /\ \E v \in {<<>>, <<"1">>} :
       \/ wizardForm' = [wizardForm EXCEPT !.sendAmount = v]
       \/ wizardForm' = [wizardForm EXCEPT !.receiveAmount = v]
  /\ wizardForm' # wizardForm
  /\ UNCHANGED <<pureVars, step, withdrawVars, adminVars, page, walletVars, storage, error,
                 createVars, redeemVars, outsideVars>>

\* the review step: Grant Permission is clicked; handleGrant runs on the
\* fields of the wizard up to `await readContract`
handleGrant_review ==
  /\ WizardShown
  /\ step = reviewStep(wizardForm.category)
  /\ ~signing
  /\ Len(storage) < MaxGrants
  /\ IF chainId \notin chains
       THEN /\ error' = Some("Unsupported chain")
            /\ UNCHANGED <<signing, grant>>
       ELSE /\ error' = Null
            /\ signing' = TRUE
            /\ grant' = [pc |-> "predict", form |-> wizardForm]
  /\ UNCHANGED <<pureVars, wizardVars, withdrawVars, adminVars, page, walletVars, storage,
                 signed, signedDelegation, redeemVars, outsideVars>>

\* Create Another is clicked in the signed view
createAnother ==
  /\ page = "create"
  /\ signed
  /\ signedDelegation # Null
  /\ signed' = FALSE
  /\ signedDelegation' = Null
  /\ step' = 1
  /\ wizardForm' = [wizardForm EXCEPT !.delegate = <<>>, !.amount = <<>>,
                                      !.sendAmount = <<>>, !.receiveAmount = <<>>]
  /\ UNCHANGED <<pureVars, withdrawVars, adminVars, page, walletVars, storage, error, signing,
                 grant, redeemVars, outsideVars>>

\* the wizard is opened in a Safe whose storage is empty
WizardStart ==
  /\ pureIn = [ chainId |-> BaseSepolia, tokenAddress |-> USDC, amount |-> <<"1">>,
                decimals |-> 6, period |-> "daily", expiryTimestamp |-> Undefined,
                startClock |-> Epoch0, expiryClock |-> Epoch0 ]
  /\ pureOut = PureResult("none", <<>>, NoTypedData, <<>>, <<>>)
  /\ page = "create"
  /\ chainId \in {BaseSepolia, 1}
  /\ isConnected = FALSE
  /\ address = Null
  /\ storage = << >>
  /\ error = Null
  /\ CreateInit
  /\ RedeemInit
  /\ OutsideInit
  /\ AdminInit
  /\ WizardInit
  /\ WithdrawInit

\* the steps of the wizard do not depend on what the clock, the salt and the
\* Safe answer: the first reading of the clock, the first salt and the
\* signature of the Safe are followed
WizardNext ==
  \/ nextStep
  \/ backStep
  \/ setDelegate
  \/ setCategory
  \/ setPermType
  \/ setSpendingLimit
  \/ setTransferIntent
  \/ handleGrant_review
  \/ handleGrant_predicted /\ grant'.now = Epoch0 /\ grant'.delegation.salt = generateSalt(1)
  \/ handleGrant_failed
  \/ SafeOwnerConfirms
  \/ handleGrant_signed /\ signedDelegation'[1].delegation.signature = SIGNATURE
                        /\ signedDelegation'[1].meta.createdAt = Epoch0
  \/ handleGrant_rejected
  \/ createAnother

SpecWizard == WizardStart /\ [][WizardNext]_vars

-----------------------------------------------------------------------------
(* pages/Delegations.tsx: ModuleTransfer, the withdrawal of the module's
   assets to the Safe *)

\* the address field of the ETH entry of the balance list
NATIVE == <<"n", "a", "t", "i", "v", "e">>

\* pad('0x00', { size: 32 })
SINGLE_DEFAULT_MODE == Prefix0x \o [i \in 1..64 |-> "0"]

\* the largest balance an asset of the module has
MaxBalance == 2

\* what the chain answers to the reads of fetchBalances: the ETH balance and
\* the balance of each known token, Null where the token's read throws
BalanceAnswers ==
  { [eth |-> e, tokens |-> <<u, o, w>>] :
      e \in {0, MaxBalance}, u \in {Some(0), Some(1)},
      o \in {Some(0), Some(MaxBalance), Null}, w \in {Some(0)} }

\* an entry of the balance list
TokenBalance(asset, balance) == [address |-> asset, balance |-> balance]

\* the loop over KNOWN_TOKENS from token i on: an entry for each read that
\* answers a positive balance
RECURSIVE TokenResults(_, _)
TokenResults(answers, i) ==
  IF i > Len(KNOWN_TOKENS_LIST) THEN << >>
  ELSE (IF answers[i] # Null /\ answers[i][1] > 0
          THEN <<TokenBalance(KNOWN_TOKENS_LIST[i].address, answers[i][1])>>
          ELSE << >>) \o TokenResults(answers, i + 1)

\* results of fetchBalances: ETH first, then the known tokens in their order
FetchResults(answer) ==
  (IF answer.eth > 0 THEN <<TokenBalance(NATIVE, answer.eth)>> ELSE << >>)
    \o TokenResults(answer.tokens, 1)

\* the transaction handleTransfer builds for one asset: the module executes a
\* single execution that moves the whole balance to the Safe
WithdrawTx(module, safeAddr, asset) ==
  [ to |-> module, value |-> "0", fn |-> "execute",
    args |-> << SINGLE_DEFAULT_MODE,
                IF asset.address = NATIVE
                  THEN Execution(safeAddr, HexNum(asset.balance), NoCallData)
                  ELSE Execution(asset.address, HexNum(0),
                                 [fn |-> "transfer", to |-> safeAddr,
                                  amount |-> HexNum(asset.balance)]) >> ]

\* the loop without its test of the selection
RECURSIVE WithdrawTxs_All(_, _, _, _, _)
WithdrawTxs_All(module, safeAddr, assets, selected, i) ==
  IF i > Len(assets) THEN << >>
  ELSE <<WithdrawTx(module, safeAddr, assets[i])>>
         \o WithdrawTxs_All(module, safeAddr, assets, selected, i + 1)

\* the loop of handleTransfer over the balance list from entry i on
RECURSIVE WithdrawTxs(_, _, _, _, _)
WithdrawTxs(module, safeAddr, assets, selected, i) ==
  IF i > Len(assets) THEN << >>
  ELSE (IF assets[i].address \in selected
          THEN <<WithdrawTx(module, safeAddr, assets[i])>>
          ELSE << >>) \o WithdrawTxs(module, safeAddr, assets, selected, i + 1)

\* ModuleTransfer after construction and the first run of its effects:
\* predictModule up to its await, or to its return on a chain without client
WithdrawMounted(chain) ==
  IF chain \in chains THEN [pc |-> "predictAddress"] ELSE Idle

\* predictAddress answers: the address is kept, the loading ends, and the
\* effect on the address starts fetchBalances up to its first await
predictModule_resolved ==
  /\ page = "withdraw"
  /\ balanceCall.pc = "predictAddress"
  /\ getAddresses(chainId).delegatorModuleFactory # FACTORY_ZERO
  /\ moduleAddress' = Some(predictAddress(SAFE_ADDRESS, DEFAULT_SALT))
  /\ loading' = FALSE
  /\ refreshing' = TRUE
  /\ balanceCall' = [pc |-> "getBalance"]
  /\ UNCHANGED <<pureVars, wizardVars, balances, sending, selectedAssets, transferCall,
                 jsonInput, imported, saved, delegations, revoking, revokeCall,
                 moduleStatus, installing, checkCall, installCall, moduleEnabled, page,
                 walletVars, storage, error, createVars, redeemVars, outsideVars>>

\* predictAddress fails: the catch and the finally block
predictModule_failed ==
  /\ page = "withdraw"
  /\ balanceCall.pc = "predictAddress"
  /\ error' = Some("Failed to predict module address")
  /\ loading' = FALSE
  /\ balanceCall' = Idle
  /\ UNCHANGED <<pureVars, wizardVars, balances, refreshing, sending, selectedAssets,
                 transferCall, adminVars, page, walletVars, storage, createVars,
                 redeemVars, outsideVars>>

\* Refresh is clicked: fetchBalances up to its first await
fetchBalances_click ==
  /\ page = "withdraw"
  /\ ~loading
  /\ ~refreshing
  /\ moduleAddress # Null
  /\ transferCall.pc # "send"
  /\ chainId \in chains
  /\ refreshing' = TRUE
  /\ balanceCall' = [pc |-> "getBalance"]
  /\ UNCHANGED <<pureVars, wizardVars, loading, balances, sending, selectedAssets,
                 transferCall, adminVars, page, walletVars, storage, error, createVars,
                 redeemVars, outsideVars>>

\* the reads answer: the list is replaced and every listed asset is selected
fetchBalances_resolved ==
  /\ balanceCall.pc = "getBalance"
  /\ \E answer \in BalanceAnswers :
       /\ balances' = FetchResults(answer)
       /\ selectedAssets' = { FetchResults(answer)[i].address : i \in 1..Len(FetchResults(answer)) }
  /\ refreshing' = FALSE
  /\ balanceCall' = Idle
  /\ UNCHANGED <<pureVars, wizardVars, loading, sending, transferCall, adminVars, page,
                 walletVars, storage, error, createVars, redeemVars, outsideVars>>

\* the read of the ETH balance fails: the outer catch and the finally block
fetchBalances_failed ==
  /\ balanceCall.pc = "getBalance"
  /\ error' = Some("Failed to fetch module balances")
  /\ refreshing' = FALSE
  /\ balanceCall' = Idle
  /\ UNCHANGED <<pureVars, wizardVars, loading, balances, sending, selectedAssets,
                 transferCall, adminVars, page, walletVars, storage, createVars,
                 redeemVars, outsideVars>>

\* the row of a listed asset is clicked
toggleAsset ==
  /\ page = "withdraw"
  /\ ~loading
  /\ transferCall.pc # "send"
  /\ \E i \in 1..Len(balances) :
       selectedAssets' = IF balances[i].address \in selectedAssets
                           THEN selectedAssets \ {balances[i].address}
                           ELSE selectedAssets \cup {balances[i].address}
  /\ UNCHANGED <<pureVars, wizardVars, loading, balances, refreshing, sending, balanceCall,
                 transferCall, adminVars, page, walletVars, storage, error, createVars,
                 redeemVars, outsideVars>>

\* Select All / Deselect All is clicked
toggleAll ==
  /\ page = "withdraw"
  /\ ~loading
  /\ transferCall.pc # "send"
  /\ balances # << >>
  /\ selectedAssets' = IF Cardinality(selectedAssets) = Len(balances) THEN {}
                       ELSE { balances[i].address : i \in 1..Len(balances) }
  /\ UNCHANGED <<pureVars, wizardVars, loading, balances, refreshing, sending, balanceCall,
                 transferCall, adminVars, page, walletVars, storage, error, createVars,
                 redeemVars, outsideVars>>

\* Transfer is clicked: handleTransfer up to the await of sdk.txs.send
handleTransfer_click ==
  /\ page = "withdraw"
  /\ ~loading
  /\ ~sending
  /\ moduleAddress # Null
  /\ selectedAssets # {}
  /\ sending' = TRUE
  /\ error' = Null
  /\ txHash' = Null
  /\ transferCall' = [pc |-> "send",
                      txs |-> WithdrawTxs(moduleAddress[1], SAFE_ADDRESS, balances,
                                          selectedAssets, 1)]
  /\ UNCHANGED <<pureVars, wizardVars, loading, balances, refreshing, selectedAssets,
                 balanceCall, adminVars, page, walletVars, storage, createVars,
                 selectedDelegation, parsedDelegation, form, swapForm, swapQuotes,
                 selectedQuote, fetchingQuotes, executing, executed, fetchCall, execCall,
                 outsideVars>>

\* the Safe takes the batch
handleTransfer_sent ==
  /\ transferCall.pc = "send"
  /\ sentTx' = Some(transferCall.txs)
  /\ txHash' = Some(SAFE_TX_HASH)
  /\ sending' = FALSE
  /\ transferCall' = Idle
  /\ UNCHANGED <<pureVars, wizardVars, loading, balances, refreshing, selectedAssets,
                 balanceCall, adminVars, page, walletVars, storage, error, createVars,
                 selectedDelegation, parsedDelegation, form, swapForm, swapQuotes,
                 selectedQuote, fetchingQuotes, executing, executed, fetchCall, execCall,
                 safeMessage, signRequest>>

\* the owner rejects the batch: the catch and the finally block
handleTransfer_rejected ==
  /\ transferCall.pc = "send"
  /\ error' = Some("Transfer failed")
  /\ sending' = FALSE
  /\ transferCall' = Idle
  /\ UNCHANGED <<pureVars, wizardVars, loading, balances, refreshing, selectedAssets,
                 balanceCall, adminVars, page, walletVars, storage, createVars, redeemVars,
                 outsideVars>>

\* ModuleTransfer is opened in a Safe
WithdrawStart ==
  /\ pureIn = [ chainId |-> BaseSepolia, tokenAddress |-> USDC, amount |-> <<"1">>,
                decimals |-> 6, period |-> "daily", expiryTimestamp |-> Undefined,
                startClock |-> Epoch0, expiryClock |-> Epoch0 ]
  /\ pureOut = PureResult("none", <<>>, NoTypedData, <<>>, <<>>)
  /\ page = "withdraw"
  /\ chainId \in {BaseSepolia, BaseMainnet, 1}
  /\ isConnected = FALSE
  /\ address = Null
  /\ storage = << >>
  /\ error = Null
  /\ CreateInit
  /\ RedeemInit
  /\ OutsideInit
  /\ AdminInit
  /\ WizardInit
  /\ loading = TRUE
  /\ balances = << >>
  /\ refreshing = FALSE
  /\ sending = FALSE
  /\ selectedAssets = {}
  /\ balanceCall = WithdrawMounted(chainId)
  /\ transferCall = Idle

WithdrawNext ==
  \/ predictModule_resolved
  \/ predictModule_failed
  \/ fetchBalances_click
  \/ fetchBalances_resolved
  \/ fetchBalances_failed
  \/ toggleAsset
  \/ toggleAll
  \/ handleTransfer_click
  \/ handleTransfer_sent
  \/ handleTransfer_rejected

SpecWithdraw == WithdrawStart /\ [][WithdrawNext]_vars
-----------------------------------------------------------------------------
(* The pages *)

\* one page is open, on one of the chains a session of that page is opened on;
\* the library inputs are not used
Init ==
  /\ pureIn = [ chainId |-> BaseSepolia, tokenAddress |-> USDC, amount |-> <<"1">>,
                decimals |-> 6, period |-> "daily", expiryTimestamp |-> Undefined,
                startClock |-> Epoch0, expiryClock |-> Epoch0 ]
  /\ pureOut = PureResult("none", <<>>, NoTypedData, <<>>, <<>>)
  /\ page \in {"create", "redeem", "standalone"}
  /\ chainId \in (CASE page = "create" -> {BaseSepolia, Anvil, 1}
                    [] page = "redeem" -> ChainIds
                    [] page = "standalone" -> {BaseSepolia, 1})
  /\ isConnected = FALSE
  /\ address = Null
  /\ storage \in (IF page = "redeem" THEN StoredLists ELSE {<< >>})
  /\ error = Null
  /\ CreateInit
  /\ RedeemInit
  /\ OutsideInit
  /\ AdminInit
  /\ WizardInit
  /\ WithdrawInit

Next ==
  \/ CreateNext
  \/ RedeemNext
  \/ SafeOwnerConfirms

Spec == Init /\ [][Next]_vars

-----------------------------------------------------------------------------
(* Claims about the library functions, checked under SpecPure *)

Erc20CaveatsBuilt == pureOut.kind = "erc20Caveats"

\* what C7 and C10 share: the first two caveats of the ERC-20 list
Erc20HeadCaveats ==
  LET caveats == pureOut.caveats
  IN  /\ Len(caveats) >= 2
      /\ caveats[1].enforcer = ERC20PeriodTransferEnforcer
      /\ caveats[2].enforcer = ValueLteEnforcer
      /\ size(caveats[2].terms) = 32
      /\ BigInt(caveats[2].terms) = HexNum(0)

\* C7 as stated: the ERC-20 caveat list starts with ERC20PeriodTransferEnforcer,
\* then ValueLteEnforcer(0), and has length 2 without an expiry argument and
\* length 3 with one.
C7_Original ==
  Erc20CaveatsBuilt =>
    /\ Erc20HeadCaveats
    /\ Len(pureOut.caveats) = IF pureIn.expiryTimestamp = Undefined THEN 2 ELSE 3

\* C7 amended: the ERC-20 caveat list starts with ERC20PeriodTransferEnforcer,
\* then ValueLteEnforcer with terms encoding 0; it has length 3 when the expiry
\* argument is a non-zero timestamp and length 2 when it is absent or 0.
C7_Erc20ForbidsEthValue ==
  Erc20CaveatsBuilt =>
    /\ Erc20HeadCaveats
    /\ Len(pureOut.caveats) =
         IF pureIn.expiryTimestamp # Undefined /\ pureIn.expiryTimestamp # Some(0)
           THEN 3 ELSE 2

C7_Witness ==
  /\ Erc20CaveatsBuilt
  /\ pureIn.expiryTimestamp \notin {Undefined, Some(0)}
  /\ Len(pureOut.caveats) = 3

\* C9: buildDelegationTypedData returns primaryType Delegation, a message with
\* exactly the delegation's delegate, delegator, authority, caveats and salt
\* (no signature), and the DelegationManager domain of the given chain; for a
\* chain outside the registry it throws and returns no typed data.
C9_TypedDataOfDelegation ==
  pureOut.arg # <<>> =>
    LET d == pureOut.arg[1]
        td == pureOut.typedData
    IN  IF pureIn.chainId \in {BaseSepolia, BaseMainnet, Anvil}
          THEN /\ pureOut.kind = "typedData"
               /\ td.primaryType = "Delegation"
               /\ DOMAIN td.message = {"delegate", "delegator", "authority", "caveats", "salt"}
               /\ td.message.delegate = d.delegate
               /\ td.message.delegator = d.delegator
               /\ td.message.authority = d.authority
               /\ td.message.caveats = d.caveats
               /\ td.message.salt = d.salt
               /\ td.domain = [ name |-> "DelegationManager", version |-> "1",
                                chainId |-> pureIn.chainId,
                                verifyingContract |-> DELEGATION_MANAGER ]
          ELSE /\ pureOut.kind = "throw"
               /\ td = NoTypedData

C9_Witness ==
  /\ pureOut.kind = "typedData"
  /\ Len(pureOut.typedData.message.caveats) = 3
  /\ pureOut.arg[1].signature = SIGNATURE

\* C10: the ERC-20 period terms are token(20) || amount(32) || period(32) ||
\* startDate(32), 116 bytes, and the decoder of fetchSwapQuotes gives the
\* token back up to letter case.
C10_PeriodTermsRoundTrip ==
  /\ Erc20CaveatsBuilt =>
       LET terms == pureOut.caveats[1].terms
       IN  /\ size(terms) = 116
           /\ Len(terms) = 2 + 2 * 116
           /\ toLowerCase(Prefix0x \o slice(terms, 2, 42)) = toLowerCase(pureIn.tokenAddress)
           /\ BigInt(Prefix0x \o slice(terms, 42, 106)) = parseUnits(pureIn.amount, pureIn.decimals)
           /\ HexToNat(slice(terms, 106, 170)) = periodToSeconds(pureIn.period)
           /\ HexToNat(slice(terms, 170, 234)) = pureIn.startClock
  /\ pureOut.kind = "sourceToken" =>
       toLowerCase(pureOut.token) = toLowerCase(pureIn.tokenAddress)

C10_Witness ==
  /\ pureOut.kind = "sourceToken"
  /\ pureIn.tokenAddress = USDC
  /\ pureOut.token # pureIn.tokenAddress

-----------------------------------------------------------------------------
(* Claims about the pages, checked under Spec *)

\* the transactions a handler has built: the one in flight and the one sent
BuiltTxs ==
  (IF execCall.pc = "send" THEN {execCall.tx} ELSE {})
  \cup (IF sentTx # Null THEN {sentTx[1]} ELSE {})

SwapTxs == {tx \in BuiltTxs : tx.fn = "swapByDelegation"}

\* the (enforcer, terms) pairs of a caveat list, in order
Pairs(caveats) == [i \in 1..Len(caveats) |-> <<caveats[i].enforcer, caveats[i].terms>>]

\* C1: in both swap handlers the chain handed to swapByDelegation has exactly
\* two entries, leaf first: entry 0 is the redelegation, whose delegate is the
\* DelegationMetaSwapAdapter and whose authority is computeDelegationHash of
\* the original delegation; entry 1 is the original delegation with its
\* delegate, delegator, authority, caveats, salt and signature unchanged.
C1_SwapChainLeafToRoot ==
  \A tx \in SwapTxs :
    LET chain == tx.delegations
        original == tx.record.delegation
    IN  /\ Len(chain) = 2
        /\ chain[1].delegate = DelegationMetaSwapAdapter
        /\ chain[1].authority = computeDelegationHash(original)
        /\ chain[2].delegate = original.delegate
        /\ chain[2].delegator = original.delegator
        /\ chain[2].authority = original.authority
        /\ Pairs(chain[2].caveats) = Pairs(original.caveats)
        /\ PackUint256(chain[2].salt) = toLowerCase(Digits(original.salt))
        /\ chain[2].signature = original.signature

\* a swap has been sent from each of the two pages' handlers
C1_Witness ==
  /\ page = "redeem"
  /\ sentTx # Null
  /\ sentTx[1].fn = "swapByDelegation"
  /\ Len(sentTx[1].record.delegation.caveats) = 2

\* C2 as stated: the value of computeDelegationHash is used for the storage
\* key and for display only; it never becomes a field of a delegation that is
\* signed or of a payload that is submitted on-chain.
C2_HashNeverSignedNorSent ==
  /\ (signRequest # Null /\ signRequest[1].parent # Null) =>
       signRequest[1].typedData.message.authority
         # computeDelegationHash(signRequest[1].parent[1])
  /\ \A tx \in BuiltTxs :
       \A i \in 1..Len(tx.delegations) :
         tx.delegations[i].authority # computeDelegationHash(tx.record.delegation)

\* C3 as stated: on the standalone page a redelegation is signed and a swap
\* transaction is sent only when the connected wallet is (case-insensitively)
\* the delegate of the loaded delegation, so the redelegation's delegator is
\* the parent's delegate.
C3_RedelegationByDelegate ==
  page = "standalone" =>
    /\ (signRequest # Null /\ signRequest[1].result # Null) =>
         toLowerCase(signRequest[1].signer)
           = toLowerCase(signRequest[1].parent[1].delegate)
    /\ \A tx \in SwapTxs :
         /\ toLowerCase(tx.from) = toLowerCase(tx.record.delegation.delegate)
         /\ toLowerCase(tx.delegations[1].delegator) = toLowerCase(tx.delegations[2].delegate)

\* C4: caveat order is preserved end to end: the (enforcer, terms) pairs of the
\* typed data, of the stored record and of the payload sent at redemption
\* (direct, and both entries of a swap chain) are those of the delegation's
\* caveat list, in the same order; redemption only adds an empty args field.
C4_CaveatOrderPreserved ==
  /\ signRequest # Null =>
       Pairs(signRequest[1].typedData.message.caveats) = Pairs(signRequest[1].delegation.caveats)
  /\ grant.pc = "sign" =>
       Pairs(signRequest[1].typedData.message.caveats) = Pairs(grant.caveats)
  /\ (page = "create" /\ signedDelegation # Null) =>
       /\ Pairs(signedDelegation[1].delegation.caveats)
            = Pairs(signRequest[1].delegation.caveats)
       /\ storage[Len(storage)] = signedDelegation[1]
  /\ \A tx \in BuiltTxs :
       LET root == tx.delegations[Len(tx.delegations)]
       IN  /\ Pairs(root.caveats) = Pairs(tx.record.delegation.caveats)
           /\ \A i \in 1..Len(tx.delegations) :
                \A j \in 1..Len(tx.delegations[i].caveats) :
                  /\ tx.delegations[i].caveats[j].args = EmptyHex
                  /\ DOMAIN tx.delegations[i].caveats[j] = {"enforcer", "terms", "args"}
           /\ tx.fn = "swapByDelegation" =>
                /\ signRequest # Null
                /\ Pairs(tx.delegations[1].caveats) = Pairs(signRequest[1].delegation.caveats)

\* a redemption of a delegation with three caveats has been sent
C4_Witness ==
  /\ sentTx # Null
  /\ sentTx[1].fn = "redeemDelegations"
  /\ Len(sentTx[1].delegations[1].caveats) = 3

\* C5 as stated: the wizard saves a record with status 'signed' and shows the
\* Delegation Ready screen only after the Safe's signing flow has reached its
\* threshold.
C5_SignedOnlyAtThreshold ==
  (page = "create" /\ signed) =>
    /\ signedDelegation[1].meta.status = "signed"
    /\ safeMessage.confirmations >= SafeThreshold

\* C6 as stated: every delegation handed to buildDelegationTypedData has
\* signature '0x', and every record the wizard saves as 'signed' carries a
\* non-empty signature, the signature value the signer returned.
C6_SignatureEmptyUntilGranted ==
  /\ signRequest # Null => signRequest[1].delegation.signature = EmptyHex
  /\ (page = "create" /\ signedDelegation # Null) =>
       /\ signedDelegation[1].delegation.signature # EmptyHex
       /\ signedDelegation[1].delegation.signature = signRequest[1].result[1].signature

\* C8 as stated: a transfer-intent delegation carries the send cap
\* (NativeTokenTransferAmountEnforcer, or ERC20TransferAmountEnforcer then
\* ValueLteEnforcer(0)) and then, last, the
\* ERC20MultiOperationIncreaseBalanceEnforcer with terms
\* token(20) || recipient(20) || amount(32), the recipient being the Safe.
C8_TransferIntentCaveats ==
  (signRequest # Null /\ grant.pc = "sign" /\ grant.form.category = "transferIntent") =>
    LET caveats == signRequest[1].delegation.caveats
        n == Len(caveats)
    IN  /\ n >= 2
        /\ caveats[n].enforcer = ERC20MultiOperationIncreaseBalanceEnforcer
        /\ size(caveats[n].terms) = 72
        /\ IF grant.form.sendType = "eth"
             THEN n = 2 /\ caveats[1].enforcer = NativeTokenTransferAmountEnforcer
             ELSE /\ n = 3
                  /\ caveats[1].enforcer = ERC20TransferAmountEnforcer
                  /\ caveats[2].enforcer = ValueLteEnforcer
                  /\ BigInt(caveats[2].terms) = HexNum(0)
        /\ slice(caveats[n].terms, 42, 82) = Digits(toLowerCase(SAFE_ADDRESS))

-----------------------------------------------------------------------------
(* Claims about the builders' expiry caveat, checked under SpecPure *)

SpendingCaveatsBuilt == pureOut.kind \in {"erc20Caveats", "ethCaveats"}

\* the positions of the TimestampEnforcer caveats of the list built
TimestampPositions ==
  { i \in 1..Len(pureOut.caveats) : pureOut.caveats[i].enforcer = TimestampEnforcer }

\* the only TimestampEnforcer caveat is the last of the list, and its terms
\* are afterThreshold = the clock read when it is built, then beforeThreshold =
\* the expiry, each a 32-byte word
TimestampLast ==
  LET caveats == pureOut.caveats
      terms == caveats[Len(caveats)].terms
  IN  /\ TimestampPositions = {Len(caveats)}
      /\ size(terms) = 64
      /\ BigInt(Prefix0x \o slice(terms, 2, 66)) = HexNum(pureIn.expiryClock)
      /\ BigInt(Prefix0x \o slice(terms, 66, 130)) = HexNum(pureIn.expiryTimestamp[1])

\* C11 as stated: in both builders a TimestampEnforcer caveat is present if
\* and only if an expiry argument was given; when present it is the last
\* caveat and encodes (now, expiry); without one the ETH list is exactly
\* [NativeTokenPeriodTransferEnforcer].
C11_Original ==
  SpendingCaveatsBuilt =>
    IF pureIn.expiryTimestamp # Undefined
      THEN TimestampLast
      ELSE /\ TimestampPositions = {}
           /\ pureOut.kind = "ethCaveats" =>
                /\ Len(pureOut.caveats) = 1
                /\ pureOut.caveats[1].enforcer = NativeTokenPeriodTransferEnforcer

\* C11 amended: a TimestampEnforcer caveat is present if and only if the expiry
\* argument is a non-zero timestamp; when present it is the last caveat and
\* encodes (now, expiry); when the expiry is absent or 0 the ETH list is
\* exactly [NativeTokenPeriodTransferEnforcer].
C11_TimestampIffNonZeroExpiry ==
  SpendingCaveatsBuilt =>
    IF pureIn.expiryTimestamp \notin {Undefined, Some(0)}
      THEN TimestampLast
      ELSE /\ TimestampPositions = {}
           /\ pureOut.kind = "ethCaveats" =>
                /\ Len(pureOut.caveats) = 1
                /\ pureOut.caveats[1].enforcer = NativeTokenPeriodTransferEnforcer

C11_Witness ==
  /\ pureOut.kind = "ethCaveats"
  /\ pureIn.expiryTimestamp \notin {Undefined, Some(0)}
  /\ pureIn.startClock < pureIn.expiryClock
  /\ Len(pureOut.caveats) = 2
  /\ pureOut.caveats[2].enforcer = TimestampEnforcer

-----------------------------------------------------------------------------
(* Claims about the stored list and the Import and Delegations pages,
   checked under SpecAdmin *)

\* the positions of a list at which a hash is stored
HashPositions(list, hash) ==
  { i \in 1..Len(list) : list[i].meta.delegationHash = hash }

\* the records the Import page is given
ImportedRecords == { ManagedRecord(kind) : kind \in {"eth", "older", "erc20", "other"} }

\* C12: starting from empty storage, whatever was saved, removed or revoked
\* (saves made by the Import page included), no two stored records share a
\* delegationHash, and saving a record whose hash is stored replaces the old
\* record and places the new one last, the other records keeping their order.
C12_HashesUniqueSaveReplaces ==
  /\ \A i, j \in 1..Len(storage) :
       storage[i].meta.delegationHash = storage[j].meta.delegationHash => i = j
  /\ \A r \in ImportedRecords :
       LET after == saveDelegation(getDelegations, r)
       IN  /\ after[Len(after)] = r
           /\ HashPositions(after, r.meta.delegationHash) = {Len(after)}
           /\ SubSeq(after, 1, Len(after) - 1) =
                removeDelegation(getDelegations, r.meta.delegationHash)

\* the file of three records was saved, then the single record whose hash is
\* that of the first: it took the place of the first and stands last
C12_Witness ==
  /\ page = "import"
  /\ saved
  /\ imported = Some(Js("arr", <<ManagedRecord("older")>>))
  /\ storage = <<ManagedRecord("erc20"), ManagedRecord("other"), ManagedRecord("older")>>

\* the text is what exportDelegationsJson writes
IsExportFile(text) ==
  /\ DOMAIN text.fields = {"version", "exportedAt", "delegations"}
  /\ text.fields.delegations.t = "arr"

\* the text is an object with a delegation and a meta field
IsSingleRecord(text) ==
  /\ {"delegation", "meta"} \subseteq DOMAIN text.fields
  /\ text.fields.delegation.t = "obj"
  /\ text.fields.meta.t = "obj"

\* C13 as stated: the export of every stored list imports as that list, in
\* order; of the texts given to the Import page an exported file imports as
\* its records in order, an object with delegation and meta fields imports as
\* the one-element list of that record, and any other object makes
\* importDelegationsJson throw 'Invalid delegation JSON format'.
C13_RoundTripOrThrow ==
  /\ importDelegationsJson(exportDelegationsJson(getDelegations, Epoch0)) =
       [throws |-> Null, value |-> Some(Js("arr", getDelegations))]
  /\ (jsonInput # Null /\ jsonInput[1].json) =>
       LET text == jsonInput[1]
       IN  IF IsExportFile(text)
             THEN /\ imported # Null
                  /\ imported[1].t = "arr"
                  /\ Len(imported[1].v) = Len(text.fields.delegations.v)
                  /\ \A i \in 1..Len(imported[1].v) :
                       RecordJson(imported[1].v[i]) = text.fields.delegations.v[i]
           ELSE IF IsSingleRecord(text)
             THEN /\ imported # Null
                  /\ imported[1].t = "arr"
                  /\ imported[1].v = << RecordOf(text.fields) >>
           ELSE /\ imported = Null
                /\ error = Some("Invalid delegation JSON format")

\* C15: a record is marked 'revoked' in the stored list only by the step in
\* which sdk.txs.send of its disableDelegation call resolves; when the send is
\* rejected, or the handler fails before it, no stored status changes; and in
\* every case the revoking marker is clear when the handler has finished.
C15_RevokedOnlyAfterSend ==
  [][ /\ (page = "delegations" /\ page' = "delegations" /\
          \E i \in 1..Len(storage') :
             /\ storage'[i].meta.status = "revoked"
             /\ \A j \in 1..Len(storage) :
                  storage[j].meta.delegationHash = storage'[i].meta.delegationHash
                    => storage[j].meta.status # "revoked")
        => /\ revokeCall.pc = "send"
           /\ revokeCall'.pc = "done"
           /\ revokeCall.tx.fn = "disableDelegation"
           /\ revokeCall.tx.to = getAddresses(chainId).delegationManager
           /\ sentTx' = Some(revokeCall.tx)
           /\ storage' = updateDelegationStatus(storage, revokeCall.d.meta.delegationHash,
                                                "revoked")
      /\ (revokeCall'.pc = "failed" /\ revokeCall.pc # "failed")
        => /\ Len(storage') = Len(storage)
           /\ \A i \in 1..Len(storage) : storage'[i].meta.status = storage[i].meta.status
      /\ revokeCall'.pc \in {"done", "failed"} => revoking' = Null
    ]_vars

\* the send of a revocation resolved: the record revoked is marked in storage
C15_Witness ==
  /\ page = "delegations"
  /\ revokeCall.pc = "done"
  /\ sentTx # Null
  /\ \E i \in 1..Len(storage) :
       /\ storage[i].meta.delegationHash = revokeCall.d.meta.delegationHash
       /\ storage[i].meta.status = "revoked"

\* the batches the Home page built or proposed
InstallBatches ==
  (IF installCall.pc = "send" THEN {installCall.txs} ELSE {})
  \cup (IF page = "home" /\ sentTx # Null THEN {sentTx[1]} ELSE {})

\* C17: the install batch is exactly two zero-value transactions in this
\* order: deploy(safe, DEFAULT_SALT) addressed to the factory of the chain,
\* then enableModule(module) addressed to the Safe itself, where module is the
\* address predictAddress gives for the Safe and the salt that deploy is
\* given.
C17_DeployThenEnablePredicted ==
  \A txs \in InstallBatches :
    /\ Len(txs) = 2
    /\ txs[1].to = getAddresses(chainId).delegatorModuleFactory
    /\ txs[1].value = "0"
    /\ txs[1].fn = "deploy"
    /\ txs[1].args = <<SAFE_ADDRESS, DEFAULT_SALT>>
    /\ txs[2].to = SAFE_ADDRESS
    /\ txs[2].value = "0"
    /\ txs[2].fn = "enableModule"
    /\ txs[2].args = <<predictAddress(txs[1].args[1], txs[1].args[2])>>
    /\ moduleAddress = Some(txs[2].args[1])

\* the batch was proposed to the Safe
C17_Witness ==
  /\ page = "home"
  /\ sentTx # Null
  /\ installCall = Idle
  /\ ~installing

\* C18 as stated: the Home page is in the 'installed' state ('Module Active')
\* only when the module is enabled on the Safe and the isModuleEnabled read of
\* the status check returned true; proposing the install batch alone does not
\* put the page in that state.
C18_InstalledOnlyWhenEnabled ==
  (page = "home" /\ moduleStatus = "installed") =>
    /\ moduleEnabled
    /\ checkCall.pc = "read"
    /\ checkCall.isEnabled

-----------------------------------------------------------------------------
(* Claims about the Redeem page of the Safe app, checked under Spec *)

\* what the Redeem page requires of a stored record to offer it
Eligible(d) ==
  /\ d.meta.status = "signed"
  /\ d.meta.chainId = chainId
  /\ toLowerCase(d.delegation.delegate) = toLowerCase(SAFE_ADDRESS)

\* the records a redemption is in flight for, or was submitted for
RecordsRedeemed ==
  (IF execCall.pc \in {"sign", "decimals"} THEN {execCall.record}
   ELSE IF execCall.pc = "send" THEN {execCall.tx.record} ELSE {})
  \cup (IF sentTx # Null THEN {sentTx[1].record} ELSE {})

\* C14: on the Redeem page of the Safe app the delegations offered, the one
\* selected and every one a redemption is built or submitted for are stored
\* with status 'signed', for the Safe's chain, with the Safe as delegate
\* (compared case-insensitively); a 'revoked' or 'pending' record is never
\* offered.
C14_OnlySignedOwnOffered ==
  page = "redeem" =>
    /\ \A i \in 1..Len(myDelegations) :
         /\ Eligible(myDelegations[i])
         /\ myDelegations[i].meta.status \notin {"revoked", "pending"}
    /\ selectedDelegation # Null =>
         /\ Eligible(selectedDelegation[1])
         /\ \E i \in 1..Len(storage) : storage[i] = selectedDelegation[1]
    /\ \A d \in RecordsRedeemed : Eligible(d)

\* a redemption was submitted while a record of this chain for this Safe is
\* stored as pending
C14_Witness ==
  /\ page = "redeem"
  /\ sentTx # Null
  /\ \E i \in 1..Len(storage) :
       /\ storage[i].meta.status = "pending"
       /\ storage[i].meta.chainId = chainId
       /\ toLowerCase(storage[i].delegation.delegate) = toLowerCase(SAFE_ADDRESS)

\* C16 as stated: on the Redeem page of the Safe app, on a chain the app
\* supports, a click on Execute that passes the form checks (positive amount
\* and valid recipient, or a selected quote for a swap) never ends in an error
\* of the page: the handler goes on to the signature request of a swap or to
\* sdk.txs.send, whatever the scopeType of the delegation selected.
C16_EverySelectableExecutes ==
  [][ ( /\ page = "redeem"
        /\ chainId \in chains
        /\ handleExecuteRedemption_click \/ handleExecuteSwapRedemption_click )
      => /\ execCall'.pc \in {"sign", "send"}
         /\ error' = Null
    ]_vars

\* the execution handleExecuteRedemption builds for a record and an input
DirectExecution(record, amount, recipient, decimals) ==
  IF record.meta.scopeType = "ethSpendingLimit"
    THEN Execution(recipient, parseEther(amount), NoCallData)
    ELSE Erc20Execution(record, amount, recipient, decimals)

\* the records a redeem page can be given
KnownRecords ==
  PastedRecords \cup UNION { { list[i] : i \in 1..Len(list) } : list \in StoredLists }

\* the records that carry the delegation of `record` and a token address
\* whenever their scope is not the ETH spending limit
SameDelegation(record) ==
  { other \in KnownRecords :
      /\ other.delegation = record.delegation
      /\ other.meta.scopeType # "ethSpendingLimit" => other.meta.tokenAddress # Undefined }

\* C19 as stated: the execution a direct redemption builds (target, value,
\* calldata) is the one the handler builds, for the same amount, recipient and
\* decimals, from every other record that carries the same delegation,
\* whatever the meta of that record.
C19_MetaHasNoAuthority ==
  [][ /\ (handleExecuteRedemption_click /\ execCall'.pc = "send")
        => \A other \in SameDelegation(Loaded[1]) :
             DirectExecution(other, form.amount, form.recipient,
                             IF Truthy(form.tokenDecimals) THEN form.tokenDecimals[1] ELSE 18)
               = execCall'.tx.execution
      /\ handleExecuteRedemption_decimals
        => \E decimals \in {6, 18} :
             \A other \in SameDelegation(execCall.record) :
               DirectExecution(other, execCall.amount, execCall.recipient, decimals)
                 = execCall'.tx.execution
    ]_vars

\* the request fetchSwapQuotes makes for the delegation loaded and the swap
\* form as it stands; none when the delegation has no period caveat
RequestNow ==
  LET found == FindCaveat(Loaded[1].delegation.caveats,
                          getAddresses(chainId).erc20PeriodTransferEnforcer)
  IN  IF found = << >> THEN Null
      ELSE Some([ sourceToken |-> SourceTokenOf(found[1]),
                  sourceAmount |-> parseUnits(swapForm.sourceAmount,
                                              findKnownToken(SourceTokenOf(found[1]))),
                  destinationToken |-> swapForm.destinationToken ])

\* C20 as stated: whatever the order in which a delegation was loaded, the
\* swap form edited, quotes fetched and Execute clicked, the quote the swap
\* handler takes was fetched for the delegation that is loaded and for the
\* source amount and the destination token the form holds at that moment.
C20_QuoteOfLoadedAndEntered ==
  [][ (handleExecuteSwapRedemption_click /\ execCall'.pc = "sign")
      => /\ RequestNow # Null
         /\ execCall'.quote.sourceToken = RequestNow[1].sourceToken
         /\ execCall'.quote.sourceAmount = RequestNow[1].sourceAmount
         /\ execCall'.quote.destinationToken = RequestNow[1].destinationToken
    ]_vars

-----------------------------------------------------------------------------
(* Claims about the frame of the storage operations, checked under SpecAdmin *)

\* the hashes the operations are called with: those of the records the pages
\* are given, and one that no record has
CalledHashes ==
  { r.meta.delegationHash : r \in ImportedRecords } \cup { ROOT_AUTHORITY }

\* the list without the entries at the positions of `gone`, in order
RECURSIVE Without(_, _, _)
Without(list, gone, i) ==
  IF i > Len(list) THEN << >>
  ELSE (IF i \in gone THEN << >> ELSE << list[i] >>) \o Without(list, gone, i + 1)

\* C23: on every stored list, removeDelegation(h) deletes exactly the records
\* whose hash is h and keeps the others in their order; updateDelegationStatus(h, s)
\* changes nothing but meta.status of the records whose hash is h; neither adds
\* a record when h is absent.
C23_OperationsChangeWhatTheyName ==
  \A h \in CalledHashes :
    LET at == HashPositions(getDelegations, h)
        removed == removeDelegation(getDelegations, h)
    IN  /\ removed = Without(getDelegations, at, 1)
        /\ Len(removed) = Len(getDelegations) - Cardinality(at)
        /\ at = {} => removed = getDelegations
        /\ \A s \in {"pending", "signed", "revoked"} :
             LET updated == updateDelegationStatus(getDelegations, h, s)
             IN  /\ Len(updated) = Len(getDelegations)
                 /\ \A i \in 1..Len(updated) :
                      IF i \in at
                        THEN /\ updated[i].meta.status = s
                             /\ updated[i].delegation = getDelegations[i].delegation
                             /\ [updated[i].meta EXCEPT !.status = getDelegations[i].meta.status]
                                  = getDelegations[i].meta
                        ELSE updated[i] = getDelegations[i]

\* a record was revoked and another removed while a third stays as it was saved
C23_Witness ==
  /\ page = "delegations"
  /\ Len(delegations) = 2
  /\ Len(storage) = 2
  /\ \E i, j \in 1..Len(storage) :
       /\ storage[i].meta.status = "revoked"
       /\ storage[j].meta.status = "signed"
       /\ storage[j] \in ImportedRecords

-----------------------------------------------------------------------------
(* Claims about the wizard, checked under SpecWizard *)

\* C21: after any sequence of Next, Back, edits, category changes and Create
\* Another the step is between 1 and the review step of the category (5 for a
\* spending limit, 4 for a transfer intent); the step rises only by exactly 1,
\* only below the review step and only when canProceed holds for the step
\* left; it falls by exactly 1 (Back), or to 1 when Create Another leaves the
\* signed view, and never below 1.
C21_LinearSteps ==
  [][ /\ step' \in 1..reviewStep(wizardForm'.category)
      /\ step' > step =>
           /\ step' = step + 1
           /\ step < reviewStep(wizardForm.category)
           /\ canProceedStep(step, wizardForm)
           /\ wizardForm' = wizardForm
      /\ step' < step =>
           \/ step' = step - 1 /\ wizardForm' = wizardForm
           \/ step' = 1 /\ signed /\ ~signed'
    ]_vars

\* after Create Another the wizard was followed to the review step of a
\* transfer intent
C21_Witness ==
  /\ page = "create"
  /\ storage # << >>
  /\ ~signed
  /\ wizardForm.category = "transferIntent"
  /\ step = 4

-----------------------------------------------------------------------------
(* C22: Module Withdraw *)

\* the positions of the balance list whose asset is selected
Chosen == { i \in 1..Len(balances) : balances[i].address \in selectedAssets }

\* the place in the batch of the asset at position i of the balance list
PlaceOf(i) == Cardinality({ j \in Chosen : j <= i })

\* the execution that moves the whole fetched balance of an asset to the Safe
FullBalanceToSafe(asset) ==
  IF asset.address = NATIVE
    THEN [target |-> SAFE_ADDRESS, value |-> HexNum(asset.balance), callData |-> NoCallData]
    ELSE [target |-> asset.address, value |-> HexNum(0),
          callData |-> [fn |-> "transfer", to |-> SAFE_ADDRESS,
                        amount |-> HexNum(asset.balance)]]

\* C22: when Transfer is clicked, handleTransfer proposes one transaction per
\* selected asset, in the order of the fetched balance list, each to the
\* module with value '0' and calling execute in single default mode with the
\* execution that moves the asset's full fetched balance to the Safe; the
\* batch the Safe receives is the batch proposed; the selected assets are
\* always among the listed ones, which all have a positive balance; and no
\* batch is proposed while the module address is unknown or nothing is selected
C22_WithdrawsSelectedToSafe ==
  [][ /\ (transferCall'.pc = "send" /\ transferCall.pc # "send") =>
           /\ moduleAddress # Null
           /\ selectedAssets # {}
           /\ Len(transferCall'.txs) = Cardinality(Chosen)
           /\ \A i \in Chosen :
                /\ transferCall'.txs[PlaceOf(i)].to = moduleAddress[1]
                /\ transferCall'.txs[PlaceOf(i)].value = "0"
                /\ transferCall'.txs[PlaceOf(i)].fn = "execute"
                /\ transferCall'.txs[PlaceOf(i)].args
                     = <<SINGLE_DEFAULT_MODE, FullBalanceToSafe(balances[i])>>
      /\ sentTx' # sentTx =>
           /\ transferCall.pc = "send"
           /\ sentTx' = Some(transferCall.txs)
           /\ transferCall.txs # << >>
      /\ selectedAssets' \subseteq { balances'[i].address : i \in 1..Len(balances') }
      /\ \A i \in 1..Len(balances') : balances'[i].balance > 0
    ]_vars

\* a batch of two transfers was sent while ETH, listed first, was deselected
C22_Witness ==
  /\ page = "withdraw"
  /\ sentTx # Null
  /\ Len(sentTx[1]) = 2
  /\ Len(balances) = 3
  /\ balances[1].address = NATIVE
  /\ NATIVE \notin selectedAssets
  /\ sentTx[1][1].args[2].target = USDC
  /\ sentTx[1][2].args[2].callData.amount = HexNum(MaxBalance)
====
